---- MODULE Spec2Model ----
(***************************************************************************)
(* Model of the asynchronous log pipeline of AsyncLogSystem:               *)
(*   LockFreeQueue<LogMessage>   include/lockFreeQueue.hpp                  *)
(*   LogManager                  src/logManager.cpp                         *)
(*   LogDispatcher               src/logDispatcher.cpp                      *)
(*   AsyncLogSystem, LogSystem   src/async_log_system.cpp, log_system.cpp   *)
(*   decorators                  src/logDecorator.cpp                       *)
(* Threads of LogManager: producers calling log, controller threads        *)
(* calling start and stop, the worker threads spawned by start, and a      *)
(* configuration thread calling setConfig and addOutput.  Every atomic     *)
(* load, store and compare-and-swap of the code is one step.               *)
(* Threads of AsyncLogSystem: callers of logAsync, one thread calling      *)
(* start and stop, the worker thread; every critical section of            *)
(* ThreadSafeQueue and every atomic access is one step.                    *)
(* LogDispatcher and the decorator chains are also specified on their own, *)
(* driven by one thread, from every configuration within the bounds.       *)
(***************************************************************************)
EXTENDS Integers, Sequences, FiniteSets, TLC

\* ---- LogLevel (include/logTypes.hpp) ----
DEBUG == 0
INFO == 1
WARN == 2
ERROR == 3
FATAL == 4

\* ---- bounds of the model ----
MaxLogs == 2        \* log() calls of producer 1 (producer 2 makes one call)
MaxCtlCalls == 3    \* start()/stop() calls of the controller thread
MaxSetConfig == 1   \* setConfig() calls
MaxOutputs == 1     \* addOutput() calls
MaxOutputsReg == 2  \* addOutput() calls in the registration specification
MaxRemoveCalls == 2 \* removeOutput() calls in it
MaxClearCalls == 1  \* clearOutputs() calls in it
MaxLogsStop == 2    \* log() calls in the stop-ordering specification
MaxCtlCallsStop == 2 \* start()/stop() calls in it
MaxLogsBlock == 1   \* log() calls of producer 1 in the non-blocking specification
MaxCtlCallsBlock == 2 \* start()/stop() calls in it
MaxLogsReg == 1     \* log() calls in it
MaxLogsCfg == 2     \* log() calls of the producer in the configuration specification
MaxLogsMC == 1      \* log() calls of the producer when two threads control the pipeline
MaxCtlCallsMC == 2  \* calls of controller thread 1 beside one call of thread 2
MaxLogsFair == 1    \* log() calls of each producer in the fair specification
MaxCtlCallsFair == 1 \* stop() calls of the controller in the fair specification
MaxSetConfigSnap == 2  \* setConfig() calls in the configuration-snapshot specification
MaxGetConfig == 2    \* getConfig() calls in it
MaxLogsSnap == 1     \* log() calls in it
MaxLogsLife == 2     \* logAsync() calls in the AsyncLogSystem lifecycle specification
MaxCtlCallsLife == 3 \* start()/stop() calls in it
MaxLogsLevel == 2    \* logAsync() calls in the level-filtering specification
MaxCtlCallsLevel == 2  \* start()/stop() calls in it
MaxLogsWait == 2     \* logAsync() calls in the waitForCompletion specification
MaxWaits == 1        \* waitForCompletion() calls in it
MaxLogsQueue == 1    \* log() calls of each producer in the reclamation specification
MaxCtlCallsQueue == 2  \* start()/stop() calls in it
MaxLogsBatch == 2     \* push() calls of producer 1 beside a thread calling popBatch
MaxBatch == 2         \* largest maxCount popBatch is called with
MaxBatchCalls == 2    \* popBatch calls
MaxLogsMPMC == 1     \* push() calls of each producer beside two consumers
MaxLogsAsync == 2    \* logAsync() calls of each thread
MaxCtlCallsAsync == 2  \* start()/stop() calls on AsyncLogSystem
MaxSinks == 2        \* sinks registered with a LogDispatcher
MaxRegCalls == 2     \* calls of the thread that changes a LogDispatcher while another dispatches
MaxDispatchReg == 3  \* dispatch() calls made beside them
MaxDispatch == 4     \* dispatch() calls on it
MaxDepth == 2        \* decorators in a chain
MaxDecoCalls == 2    \* calls made on a decorator chain

QueueCapacity == 1   \* the queue capacity configured in the overflow specifications

\* workerFunction: const size_t batchSize = 100
BatchSize == 100

\* LogConfig::maxQueueSize = 10000, AsyncLogSystem::maxQueueSize_(10000)
DefaultMaxQueueSize == 10000

Producers == {1, 2}
Controllers == {1, 2}
MaxOf(a, b) == IF a >= b THEN a ELSE b
MaxLogsAny ==
    MaxOf(MaxOf(MaxOf(MaxLogs, MaxLogsCfg), MaxOf(MaxLogsMC, MaxLogsFair)),
          MaxOf(MaxOf(MaxLogsAsync, MaxLogsSnap),
                MaxOf(MaxOf(MaxLogsLife, MaxOf(MaxOf(MaxLogsMPMC, MaxOf(MaxLogsReg, MaxOf(MaxLogsStop, MaxLogsBlock))), MaxOf(MaxLogsQueue, MaxLogsBatch))),
                      MaxOf(MaxLogsLevel, MaxLogsWait))))
MaxWorkers == MaxOf(MaxCtlCalls, MaxOf(MaxCtlCallsMC + 1, MaxCtlCallsFair + 1))
Workers == 1..MaxWorkers

\* levels the producers log with, and minimum levels setConfig installs
InputLevels == {INFO, WARN}
ConfigLevels == {DEBUG, WARN}

\* ---- queue nodes ----
Nil == 0
Sentinel == 1
\* the node allocated by the k-th log() call of producer p (new QueueNode)
NodeOf(p, k) == 1 + (p - 1) * MaxLogsAny + k
Nodes == 1..(1 + Cardinality(Producers) * MaxLogsAny)
NoRec == [prod |-> 0, seq |-> 0, level |-> INFO]   \* T{} of the sentinel

NoThread == 0

\* the output createDefaultOutputs builds; addOutput's k-th argument is object k
DefaultOutput == 0

VARIABLES
    head, tail, size,        \* LockFreeQueue::head_, tail_, size_
    next, data, alive,       \* QueueNode::next, QueueNode::data, node not yet deleted
    running, shouldStop,     \* LogManager::running_, shouldStop_
    workerThread,            \* LogManager::workerThread_ (joinable handle or NoThread)
    minLevel,                \* LogManager::config_->minLevel
    outputs,                 \* LogDispatcher::outputs_: what each sink has been written
    flushes,                 \* number of ILogOutput::flush calls on each sink
    outputs_,                \* LogManager::outputs_: what each registered object has been written
    outputIds,               \* which object each element of LogManager::outputs_ is
    sinkFor,                 \* for each sink of the dispatcher, the object it was created for
    ocalls,                  \* addOutput, removeOutput and clearOutputs calls made
    ppc, plvl, pexp, pcalls, \* producer: position, level, expected/oldTail, calls made
    wpc, wphase, wOldHead, wNext, wmsgs,  \* worker locals
    nworkers,                \* threads spawned so far
    cpc, cret, ch, cnew, ccalls,   \* controller: position, last result, handles, calls
    ncfg,                    \* setConfig calls made
    enableColor,             \* LogManager::config_->enableColor
    gcResult, ngc,           \* what the last getConfig() returned, getConfig() calls made
    cfgHistory,              \* the configurations config_ has been given, in order
    destroyed,               \* ~LogManager has run (and with it ~LockFreeQueue)
    pb,                      \* popBatch called on its own: maxCount, head_ on entry, calls made
    configMutex_,            \* LogManager::configMutex_: the worker thread that holds it, or NoThread
    lim,                     \* bounds of the specification being run
    dispatched,              \* records passed to LogDispatcher::dispatch, in order
    returned,                \* records whose log() call has returned after a push
    stopSnap,                \* returned, as it was when the controller invoked stop()
    aborted,                 \* the process has died (std::terminate, or a crash)
    ub,                      \* a deleted node was accessed, or a thread joined twice
    \* ---- AsyncLogSystem (src/async_log_system.cpp) ----
    asyncQueue,              \* ThreadSafeQueue::queue_ of AsyncLogSystem::messageQueue_
    asyncRunning, asyncInitialized,   \* AsyncLogSystem::running_, initialized_
    asyncThread,             \* AsyncLogSystem::workerThread_ is joinable
    lsConfig,                \* LogSystem::config (minLevel, enableConsole)
    apc, acalls, arec,       \* thread in logAsync: position, calls made, LogMessage msg
    awpc, awmsg,             \* AsyncLogSystem::workerFunction: position, msg
    acpc, accalls,           \* thread calling start()/stop(): position, calls made
    console,                 \* records LogSystem::writeToConsole has printed, in order
    cerrDropped,             \* records named in a queue-full warning on std::cerr
    asyncAccepted,           \* records logAsync has pushed onto messageQueue_, in order
    asyncSync,               \* records logAsync has handed to LogSystem::log (not running)
    acLast,                  \* the last of start() and stop() that was called
    asyncWorkers,            \* threads running AsyncLogSystem::workerFunction
    asyncSpawned,            \* worker threads start() has created so far
    belowMin,                \* records submitted below the minLevel configured at that time
    wfpc, wfret,             \* thread in waitForCompletion: position, last result
    wfTimeout,               \* its argument timeout_ms
    wfSnap,                  \* the records logAsync had pushed when it was called
    wfBusy,                  \* a thread has been inside logAsync during the call
    nwait,                   \* waitForCompletion calls made
    \* ---- a LogDispatcher used on its own (src/logDispatcher.cpp) ----
    sinks,                   \* LogDispatcher::outputs_: how each registered sink behaves
    messageFilter_, routeFunction_, routingStrategy_, roundRobinCounter_,
    sinkWrites,              \* the records each sink's write has been called with, in order
    dispatchCalls,           \* the calls the last dispatch() made on the sinks, in order
    dispatchRet,             \* how the last dispatch() ended: its return value, or a throw
    dispatchMsg,             \* the record the last dispatch() was called with
    ndispatch,               \* dispatch() calls made
    sinkClosed,              \* close() has been called on the sink (FileOutput: !isOpen_)
    dispatchOp,              \* the last method called on the dispatcher
    dpc,                     \* a thread inside dispatch(): its position
    targetOutputs,           \* dispatch: std::vector<size_t> targetOutputs
    rpc,                     \* a second thread inside a registration or set* call: the call
    rcalls,                  \* calls that thread has made
    raced,                   \* a member was read while the other thread was writing it
    \* ---- a decorator chain around a sink S (src/logDecorator.cpp) ----
    chain,                   \* the decorators, outermost first; each wraps the next, the last wraps S
    sinkAvailable,           \* what S.isAvailable() returns
    sinkCalls,               \* the calls made on S, in order (write with the message received)
    decoMsg,                 \* the record the last write() on the chain was called with
    decoAvail,               \* what the last isAvailable() on the chain returned
    decoOp,                  \* the last method called on the outermost decorator
    ndeco                    \* calls made on the outermost decorator

qvars == <<head, tail, size, next, data, alive>>
mvars == <<running, shouldStop, workerThread, minLevel>>
dvars == <<outputs, flushes, outputs_, outputIds, sinkFor, ocalls>>
pvars == <<ppc, plvl, pexp, pcalls>>
wvars == <<wpc, wphase, wOldHead, wNext, wmsgs, nworkers>>
cvars == <<cpc, cret, ch, cnew, ccalls>>
cfgvars == <<enableColor, gcResult, ngc, cfgHistory>>
gvars == <<dispatched, returned, stopSnap, aborted, ub>>
alvars == <<acLast, asyncWorkers, asyncSpawned>>
awvars == <<wfpc, wfret, wfTimeout, wfSnap, wfBusy, nwait>>
avars == <<asyncQueue, asyncRunning, asyncInitialized, asyncThread, lsConfig,
           apc, acalls, arec, awpc, awmsg, acpc, accalls, console, cerrDropped,
           asyncAccepted, asyncSync, alvars, awvars, belowMin>>
ctvars == <<dpc, targetOutputs, rpc, rcalls, raced>>
\* the state of the components other than LogManager and its queue
dspvars == <<sinks, messageFilter_, routeFunction_, routingStrategy_, roundRobinCounter_,
             sinkWrites, dispatchCalls, dispatchRet, dispatchMsg, ndispatch,
             sinkClosed, dispatchOp, ctvars>>
decvars == <<chain, sinkAvailable, sinkCalls, decoMsg, decoAvail, decoOp, ndeco>>
svars == <<avars, dspvars, decvars>>
\* the state of LogManager, its queue and its dispatcher
lmvars == <<qvars, mvars, dvars, pvars, wvars, cvars, ncfg, cfgvars, destroyed, pb, configMutex_, gvars>>
vars == <<qvars, mvars, dvars, pvars, wvars, cvars, ncfg, cfgvars, destroyed, pb, configMutex_, lim, gvars, svars>>

Range(s) == {s[i] : i \in 1..Len(s)}

\* ---- LogLevel of namespace log_system (include/log_types.h) ----
LS_TRACE == 0
LS_DEBUG_LEVEL == 1
LS_INFO == 2
LS_WARN == 3
LS_ERROR == 4
LS_FATAL == 5

\* ---- AsyncLogSystem::AsyncLogSystem, LogSystem::config ----
AsyncInit ==
    /\ asyncQueue = <<>>
    /\ asyncRunning = FALSE /\ asyncInitialized = FALSE
    /\ asyncThread = FALSE
    /\ lsConfig = [minLevel |-> LS_INFO, enableConsole |-> TRUE]
    /\ apc = [p \in Producers |-> "idle"]
    /\ acalls = [p \in Producers |-> 0]
    /\ arec = [p \in Producers |-> NoRec]
    /\ awpc = "unborn"
    /\ awmsg = NoRec
    /\ acpc = "idle"
    /\ accalls = 0
    /\ console = <<>>
    /\ cerrDropped = <<>>
    /\ asyncAccepted = <<>>
    /\ asyncSync = <<>>
    /\ acLast = "none"
    /\ asyncWorkers = 0
    /\ asyncSpawned = 0
    /\ belowMin = {}
    /\ wfpc = "idle" /\ wfret = "none"
    /\ wfTimeout = 0
    /\ wfSnap = {}
    /\ wfBusy = FALSE
    /\ nwait = 0

\* ---- sinks, filters and route functions a LogDispatcher is configured with ----
\* A sink is an ILogOutput (or nullptr): write succeeds, isAvailable() is false,
\* write throws an exception derived from std::exception, or write throws an object
\* of another type.
SinkKinds == {"ok", "unavailable", "throws", "throws_other", "null"}
\* "ok" is what a ConsoleOutput is (isAvailable() is always true); a "file" sink is
\* a FileOutput that was opened: isAvailable() returns isOpen_, which close() clears
LifecycleSinkKinds == {"ok", "file"}
\* messageFilter_: none, or a predicate accepting the records at WARN and above
Filters == {"none", "warn_or_above"}
\* routeFunction_: none, or a function returning a fixed index (0-based)
NoRoute == -1
Routes == {NoRoute} \cup (0..MaxSinks)
\* setDefaultRoutingStrategy: 0 = all outputs, 1 = round robin, 2 = random
Strategies == {0, 1, 2}
SinkSeqs == UNION {[1..n -> SinkKinds] : n \in 0..MaxSinks}

\* the second thread is in no call
NoCall == [op |-> "idle", arg |-> 0]

\* ---- LogDispatcher::LogDispatcher, then addOutput / setMessageFilter /
\* setRouteFunction / setDefaultRoutingStrategy before the first dispatch ----
DispatcherInit(s, f, r, st) ==
    /\ sinks = s
    /\ messageFilter_ = f
    /\ routeFunction_ = r
    /\ routingStrategy_ = st
    /\ roundRobinCounter_ = 0
    /\ sinkWrites = [i \in 1..Len(s) |-> <<>>]
    /\ dispatchCalls = <<>>
    /\ dispatchRet = [raised |-> FALSE, count |-> 0]
    /\ dispatchMsg = NoRec
    /\ ndispatch = 0
    /\ sinkClosed = [i \in 1..Len(s) |-> FALSE]
    /\ dispatchOp = "none"
    /\ dpc = "idle"
    /\ targetOutputs = <<>>
    /\ rpc = NoCall
    /\ rcalls = 0
    /\ raced = FALSE

\* ---- decorators a chain is built from (include/logDecorator.hpp) ----
\* LogDecorator, TimestampDecorator, ColorDecorator(enableColor),
\* FilterDecorator(filter); opt is enableColor_, resp. filter_
Decorators ==
    {[kind |-> "LogDecorator", opt |-> "-"], [kind |-> "Timestamp", opt |-> "-"]}
    \cup {[kind |-> "Color", opt |-> o] : o \in {"on", "off"}}
    \cup {[kind |-> "Filter", opt |-> f] : f \in Filters}
Chains == UNION {[1..n -> Decorators] : n \in 0..MaxDepth}
\* a LogMessage with its message text, a sequence of pieces of text
Msg(l, text) == [level |-> l, message |-> text]

\* ---- construction of the chain: each decorator is given the object it wraps ----
DecoratorInit(dch, av) ==
    /\ chain = dch
    /\ sinkAvailable = av
    /\ sinkCalls = <<>>
    /\ decoMsg = Msg(INFO, <<>>)
    /\ decoAvail = FALSE
    /\ decoOp = "none"
    /\ ndeco = 0

\* ---- LogConfig (include/logTypes.hpp), two of its fields; LogConfig{} ----
Config(m, e) == [minLevel |-> m, enableColor |-> e]
DefaultConfig == Config(DEBUG, TRUE)

\* ---- LogManager::LogManager, LockFreeQueue::LockFreeQueue; consumers is the
\* number of threads that are already draining the queue, pc and phase where they are ----
ManagerInitAs(l, consumers, pc, phase) ==
    /\ head = Sentinel /\ tail = Sentinel /\ size = 0
    /\ next = [n \in Nodes |-> Nil]
    /\ data = [n \in Nodes |-> NoRec]
    /\ alive = [n \in Nodes |-> n = Sentinel]
    /\ running = (consumers > 0) /\ shouldStop = FALSE
    /\ workerThread = NoThread
    /\ minLevel = DEBUG
    \* createDefaultOutputs runs before dispatcher_ is created: the dispatcher starts empty
    /\ outputs = <<>> /\ flushes = <<>>
    \* createDefaultOutputs: outputs_.push_back(colorDecorator)
    /\ outputs_ = <<<<>>>>
    /\ outputIds = <<DefaultOutput>>
    /\ sinkFor = <<>>
    /\ ocalls = [add |-> 0, remove |-> 0, clear |-> 0]
    /\ ppc = [p \in Producers |-> "idle"]
    /\ plvl = [p \in Producers |-> INFO]
    /\ pexp = [p \in Producers |-> Nil]
    /\ pcalls = [p \in Producers |-> 0]
    /\ wpc = [w \in Workers |-> IF w <= consumers THEN pc ELSE "unborn"]
    /\ wphase = [w \in Workers |-> IF w <= consumers THEN phase ELSE "main"]
    /\ wOldHead = [w \in Workers |-> Nil]
    /\ wNext = [w \in Workers |-> Nil]
    /\ wmsgs = [w \in Workers |-> <<>>]
    /\ nworkers = consumers
    /\ cpc = [c \in Controllers |-> "idle"]
    /\ cret = [c \in Controllers |-> "none"]
    /\ ch = [c \in Controllers |-> NoThread]
    /\ cnew = [c \in Controllers |-> NoThread]
    /\ ccalls = [c \in Controllers |-> 0]
    /\ ncfg = 0
    /\ enableColor = TRUE
    /\ gcResult = DefaultConfig
    /\ ngc = 0
    /\ cfgHistory = <<DefaultConfig>>
    /\ destroyed = FALSE
    /\ pb = [maxCount |-> 0, head0 |-> Nil, calls |-> 0]
    /\ configMutex_ = NoThread
    /\ lim = l
    /\ dispatched = <<>>
    /\ returned = {}
    /\ stopSnap = [c \in Controllers |-> {}]
    /\ aborted = FALSE
    /\ ub = FALSE

\* ---- the same with the consumers inside workerFunction, at its loop test ----
ManagerInitWith(l, consumers) == ManagerInitAs(l, consumers, "loop", "main")

\* ---- LogManager::LogManager: no thread drains the queue before start() ----
ManagerInit(l) == ManagerInitWith(l, 0)

\* a limit record for the specifications in which LogManager takes no step
NoLimits ==
    [logs |-> [p \in Producers |-> 0], levels |-> {},
     ctl |-> [c \in Controllers |-> 0], cfg |-> 0, out |-> 0, restart |-> FALSE, gets |-> 0, waits |-> 0,
     cap |-> DefaultMaxQueueSize]

\* the program with a LogManager (bounds l), an AsyncLogSystem and a fresh LogDispatcher
InitWith(l) ==
    /\ ManagerInit(l)
    /\ AsyncInit
    /\ DispatcherInit(<<>>, "none", NoRoute, 0)
    /\ DecoratorInit(<<>>, TRUE)

\* Pipeline: two producers, one controller thread calling start() and stop()
Init ==
    InitWith([logs |-> [p \in Producers |-> IF p = 1 THEN MaxLogs ELSE 1],
              levels |-> {INFO},
              ctl |-> [c \in Controllers |-> IF c = 1 THEN MaxCtlCalls ELSE 0],
              cfg |-> 0, out |-> 0, restart |-> FALSE, gets |-> 0, waits |-> 0,
              cap |-> DefaultMaxQueueSize])

\* shouldLog with a strict comparison
shouldLogStrict(level, cfgMin) == level > cfgMin

\* ---- LogManager::shouldLog ----
shouldLog(level, cfgMin) == level >= cfgMin

\* ---- LogConfig::maxQueueSize of the configuration LogManager holds ----
maxQueueSize == lim.cap

\* std::atomic<size_t> size_: the largest value of the counter (2^64 - 1 in the
\* build; here the largest integer the checker holds)
SIZE_MAX == 2147483647

\* ---- LockFreeQueue::getSize: size_.load(); fetch_sub on 0 wraps to SIZE_MAX ----
getSize == IF size >= 0 THEN size ELSE SIZE_MAX + (size + 1)

\* empty() that reports an empty queue whatever head_ and tail_ are
emptyAlways == TRUE

\* ---- LockFreeQueue::empty ----
empty == head = tail

\* no step is taken after the process has died, nor on a destroyed LogManager
Live == ~aborted /\ ~destroyed

\* An access that is defined when ok holds and undefined behaviour otherwise (a
\* deleted node, a thread handle already joined): the build either crashes there
\* or carries on with the stale memory.
Access(ok) ==
    /\ ub' = (ub \/ ~ok)
    /\ \E crash \in (IF ok THEN {FALSE} ELSE BOOLEAN) : aborted' = crash

Rec(p, k, l) == [prod |-> p, seq |-> k, level |-> l]

\* ======================= producers: LogManager::log =======================
\* log(): shouldLog(level) under configMutex_ (taken and released within the step,
\* once no other thread holds it); on success LogMessage msg(level, message)
\* and the first statement of push: new QueueNode(std::move(item))
LogCall(p, l) ==
    /\ Live /\ ppc[p] = "idle" /\ pcalls[p] < lim.logs[p] /\ l \in lim.levels
    /\ configMutex_ = NoThread
    /\ pcalls' = [pcalls EXCEPT ![p] = @ + 1]
    /\ plvl' = [plvl EXCEPT ![p] = l]
    /\ IF shouldLog(l, minLevel)
       THEN /\ ppc' = [ppc EXCEPT ![p] = "push_load"]
            /\ alive' = [alive EXCEPT ![NodeOf(p, pcalls[p] + 1)] = TRUE]
            /\ data' = [data EXCEPT ![NodeOf(p, pcalls[p] + 1)] = Rec(p, pcalls[p] + 1, l)]
       ELSE /\ ppc' = ppc
            /\ UNCHANGED <<alive, data>>
    /\ UNCHANGED <<head, tail, size, next, pexp, mvars, dvars, wvars, cvars, ncfg, cfgvars, destroyed, pb, configMutex_, lim, svars, gvars>>

\* push: oldTail = tail_.load(); expected = oldTail
PushLoad(p) ==
    /\ Live /\ ppc[p] = "push_load"
    /\ pexp' = [pexp EXCEPT ![p] = tail]
    /\ ppc' = [ppc EXCEPT ![p] = "push_cas"]
    /\ UNCHANGED <<qvars, plvl, pcalls, mvars, dvars, wvars, cvars, ncfg, cfgvars, destroyed, pb, configMutex_, lim, svars, gvars>>

\* push: one round of while (!tail_.compare_exchange_weak(expected, newNode))
\*       { oldTail = expected; expected = oldTail; }
PushCAS(p) ==
    /\ Live /\ ppc[p] = "push_cas"
    /\ IF tail = pexp[p]
       THEN /\ tail' = NodeOf(p, pcalls[p])
            /\ ppc' = [ppc EXCEPT ![p] = "push_link"]
            /\ pexp' = pexp
       ELSE /\ pexp' = [pexp EXCEPT ![p] = tail]
            /\ UNCHANGED <<tail, ppc>>
    /\ UNCHANGED <<head, size, next, data, alive, plvl, pcalls, mvars, dvars, wvars,
                   cvars, ncfg, cfgvars, destroyed, pb, configMutex_, lim, svars, gvars>>

\* push: oldTail->next.store(newNode)
PushLink(p) ==
    /\ Live /\ ppc[p] = "push_link"
    /\ next' = [next EXCEPT ![pexp[p]] = NodeOf(p, pcalls[p])]
    /\ Access(alive[pexp[p]])
    /\ ppc' = [ppc EXCEPT ![p] = "push_size"]
    /\ UNCHANGED <<head, tail, size, data, alive, pexp, plvl, pcalls, mvars, dvars, wvars,
                   cvars, ncfg, cfgvars, destroyed, pb, configMutex_, lim, svars, dispatched, returned, stopSnap>>

\* push: size_.fetch_add(1); log() returns
PushSize(p) ==
    /\ Live /\ ppc[p] = "push_size"
    /\ size' = size + 1
    /\ ppc' = [ppc EXCEPT ![p] = "idle"]
    /\ pexp' = [pexp EXCEPT ![p] = Nil]
    /\ returned' = returned \cup {Rec(p, pcalls[p], plvl[p])}
    /\ UNCHANGED <<head, tail, next, data, alive, plvl, pcalls, mvars, dvars, wvars,
                   cvars, ncfg, cfgvars, destroyed, pb, configMutex_, lim, svars, dispatched, stopSnap, aborted, ub>>

Producer(p) ==
    \/ \E l \in InputLevels : LogCall(p, l)
    \/ PushLoad(p)
    \/ PushCAS(p)
    \/ PushLink(p)
    \/ PushSize(p)

\* ================== LogDispatcher (no filter, broadcast) ===================
\* dispatch(msg): shouldDispatch passes when no filter is set; defaultRouting
\* (strategy 0) targets every index; each sink that isAvailable() gets write(msg).
\* The sinks LogManager registers with the dispatcher are ConsoleOutput objects:
\* always available, write does not throw.
dispatchWrite(outs, msg) == [i \in 1..Len(outs) |-> Append(outs[i], msg)]

\* LogDispatcher::flush: flush() on every available sink
dispatcherFlush(fl) == [i \in 1..Len(fl) |-> fl[i] + 1]

\* ================= worker thread: LogManager::workerFunction ==============
\* the maxCount popBatch runs with: batchSize in workerFunction, the argument of
\* the call when a thread calls popBatch on its own
maxCount(w) == IF wphase[w] = "batch" THEN pb.maxCount ELSE BatchSize

\* where popBatch goes when a pop returns false or the batch is full
BatchEnd(w, msgs) ==
    IF wphase[w] = "batch" THEN "batch_ret"
    ELSE IF Len(msgs) > 0 THEN "process"
    ELSE IF wphase[w] = "main" THEN "wait" ELSE "done"

\* while (!shouldStop_.load()) ... ; after it the loop over the remaining messages.
\* Entering popBatch: items.clear(), count = 0.
WorkerLoop(w) ==
    /\ Live /\ wpc[w] = "loop"
    /\ wphase' = [wphase EXCEPT ![w] = IF shouldStop THEN "final" ELSE "main"]
    /\ wpc' = [wpc EXCEPT ![w] = "pop_head"]
    /\ wmsgs' = [wmsgs EXCEPT ![w] = <<>>]
    /\ UNCHANGED <<qvars, mvars, dvars, pvars, wOldHead, wNext, nworkers,
                   cvars, ncfg, cfgvars, destroyed, pb, configMutex_, lim, svars, gvars>>

\* popBatch: while (count < maxCount && pop(item)); pop: oldHead = head_.load()
PopHead(w) ==
    /\ Live /\ wpc[w] = "pop_head"
    /\ IF Len(wmsgs[w]) < maxCount(w)
       THEN /\ wOldHead' = [wOldHead EXCEPT ![w] = head]
            /\ wpc' = [wpc EXCEPT ![w] = "pop_tail"]
       ELSE /\ wpc' = [wpc EXCEPT ![w] = BatchEnd(w, wmsgs[w])]
            /\ UNCHANGED wOldHead
    /\ UNCHANGED <<qvars, mvars, dvars, pvars, wphase, wNext, wmsgs, nworkers,
                   cvars, ncfg, cfgvars, destroyed, pb, configMutex_, lim, svars, gvars>>

\* pop: oldTail = tail_.load(); if (oldHead == oldTail) return false
PopTail(w) ==
    /\ Live /\ wpc[w] = "pop_tail"
    /\ IF wOldHead[w] = tail
       THEN /\ wpc' = [wpc EXCEPT ![w] = BatchEnd(w, wmsgs[w])]
            /\ wOldHead' = [wOldHead EXCEPT ![w] = Nil]
       ELSE /\ wpc' = [wpc EXCEPT ![w] = "pop_next"]
            /\ UNCHANGED wOldHead
    /\ UNCHANGED <<qvars, mvars, dvars, pvars, wphase, wNext, wmsgs, nworkers,
                   cvars, ncfg, cfgvars, destroyed, pb, configMutex_, lim, svars, gvars>>

\* pop: next = oldHead->next.load(); if (next == nullptr) return false
PopNext(w) ==
    /\ Live /\ wpc[w] = "pop_next"
    /\ Access(alive[wOldHead[w]])
    /\ IF next[wOldHead[w]] = Nil
       THEN /\ wpc' = [wpc EXCEPT ![w] = BatchEnd(w, wmsgs[w])]
            /\ wOldHead' = [wOldHead EXCEPT ![w] = Nil]
            /\ UNCHANGED wNext
       ELSE /\ wpc' = [wpc EXCEPT ![w] = "pop_cas"]
            /\ wNext' = [wNext EXCEPT ![w] = next[wOldHead[w]]]
            /\ UNCHANGED wOldHead
    /\ UNCHANGED <<qvars, mvars, dvars, pvars, wphase, wmsgs, nworkers,
                   cvars, ncfg, cfgvars, destroyed, pb, configMutex_, lim, svars, dispatched, returned, stopSnap>>

\* pop: if (head_.compare_exchange_strong(oldHead, next)) ... else return false
PopCAS(w) ==
    /\ Live /\ wpc[w] = "pop_cas"
    /\ IF head = wOldHead[w]
       THEN /\ head' = wNext[w]
            /\ wpc' = [wpc EXCEPT ![w] = "pop_move"]
            /\ UNCHANGED <<wOldHead, wNext>>
       ELSE /\ wpc' = [wpc EXCEPT ![w] = BatchEnd(w, wmsgs[w])]
            /\ wOldHead' = [wOldHead EXCEPT ![w] = Nil]
            /\ wNext' = [wNext EXCEPT ![w] = Nil]
            /\ UNCHANGED head
    /\ UNCHANGED <<tail, size, next, data, alive, mvars, dvars, pvars, wphase,
                   wmsgs, nworkers, cvars, ncfg, cfgvars, destroyed, pb, configMutex_, lim, svars, gvars>>

\* PopMove with the popped item inserted at the front of items
PopMoveFront(w) ==
    /\ Live /\ wpc[w] = "pop_move"
    /\ wmsgs' = [wmsgs EXCEPT ![w] = <<data[wNext[w]]>> \o @]
    /\ alive' = [alive EXCEPT ![wOldHead[w]] = FALSE]
    /\ Access(alive[wNext[w]] /\ alive[wOldHead[w]])
    /\ size' = size - 1
    /\ wpc' = [wpc EXCEPT ![w] = "pop_head"]
    /\ wOldHead' = [wOldHead EXCEPT ![w] = Nil]
    /\ wNext' = [wNext EXCEPT ![w] = Nil]
    /\ UNCHANGED <<head, tail, next, data, mvars, dvars, pvars, wphase, nworkers,
                   cvars, ncfg, cfgvars, destroyed, pb, configMutex_, lim, svars, dispatched, returned, stopSnap>>

\* pop: item = std::move(next->data); delete oldHead; size_.fetch_sub(1); return true
\* popBatch: items.push_back(std::move(item)); count++
PopMove(w) ==
    /\ Live /\ wpc[w] = "pop_move"
    /\ wmsgs' = [wmsgs EXCEPT ![w] = Append(@, data[wNext[w]])]
    /\ alive' = [alive EXCEPT ![wOldHead[w]] = FALSE]
    /\ Access(alive[wNext[w]] /\ alive[wOldHead[w]])
    /\ size' = size - 1
    /\ wpc' = [wpc EXCEPT ![w] = "pop_head"]
    /\ wOldHead' = [wOldHead EXCEPT ![w] = Nil]
    /\ wNext' = [wNext EXCEPT ![w] = Nil]
    /\ UNCHANGED <<head, tail, next, data, mvars, dvars, pvars, wphase, nworkers,
                   cvars, ncfg, cfgvars, destroyed, pb, configMutex_, lim, svars, dispatched, returned, stopSnap>>

\* WorkerProcess with every message still in the batch dispatched at each round
WorkerProcessAll(w) ==
    /\ Live /\ wpc[w] = "process"
    /\ dispatched' = dispatched \o wmsgs[w]
    /\ outputs' = dispatchWrite(outputs, Head(wmsgs[w]))
    /\ wmsgs' = [wmsgs EXCEPT ![w] = Tail(@)]
    /\ wpc' = [wpc EXCEPT ![w] =
                 IF Len(wmsgs[w]) > 1 THEN "process"
                 ELSE IF wphase[w] = "main" THEN "loop" ELSE "pop_head"]
    /\ UNCHANGED <<qvars, mvars, flushes, outputs_, outputIds, sinkFor, ocalls, pvars, wphase, wOldHead, wNext,
                   nworkers, cvars, ncfg, cfgvars, destroyed, pb, configMutex_, lim, svars, returned, stopSnap, aborted, ub>>

\* for (const auto& msg : messages) processMessage(msg): dispatcher_->dispatch(msg);
\* after the last one messages.clear() and back to the loop test
WorkerProcess(w) ==
    /\ Live /\ wpc[w] = "process"
    /\ dispatched' = Append(dispatched, Head(wmsgs[w]))
    /\ outputs' = dispatchWrite(outputs, Head(wmsgs[w]))
    /\ wmsgs' = [wmsgs EXCEPT ![w] = Tail(@)]
    /\ wpc' = [wpc EXCEPT ![w] =
                 IF Len(wmsgs[w]) > 1 THEN "process"
                 ELSE IF wphase[w] = "main" THEN "loop" ELSE "pop_head"]
    /\ UNCHANGED <<qvars, mvars, flushes, outputs_, outputIds, sinkFor, ocalls, pvars, wphase, wOldHead, wNext,
                   nworkers, cvars, ncfg, cfgvars, destroyed, pb, configMutex_, lim, svars, returned, stopSnap, aborted, ub>>

\* workerCondition_.wait_for(lock, 100ms): returns on notify_all or after the timeout
WorkerWait(w) ==
    /\ Live /\ wpc[w] = "wait"
    /\ wpc' = [wpc EXCEPT ![w] = "loop"]
    /\ UNCHANGED <<qvars, mvars, dvars, pvars, wphase, wOldHead, wNext, wmsgs,
                   nworkers, cvars, ncfg, cfgvars, destroyed, pb, configMutex_, lim, svars, gvars>>

\* WorkerWaitFor that goes to sleep without releasing configMutex_
WorkerWaitForHolding(w) ==
    /\ Live /\ wpc[w] = "wait_for"
    /\ wpc' = [wpc EXCEPT ![w] = "sleep"]
    /\ UNCHANGED <<qvars, mvars, dvars, pvars, wphase, wOldHead, wNext, wmsgs,
                   nworkers, cvars, ncfg, cfgvars, destroyed, pb, configMutex_, lim, svars, gvars>>

\* The wait of the worker in three steps.
\* std::unique_lock<std::mutex> lock(configMutex_)
WorkerWaitLock(w) ==
    /\ Live /\ wpc[w] = "wait" /\ configMutex_ = NoThread
    /\ configMutex_' = w
    /\ wpc' = [wpc EXCEPT ![w] = "wait_for"]
    /\ UNCHANGED <<qvars, mvars, dvars, pvars, wphase, wOldHead, wNext, wmsgs,
                   nworkers, cvars, ncfg, cfgvars, destroyed, pb, lim, svars, gvars>>

\* workerCondition_.wait_for(lock, 100ms): releases the mutex and blocks the thread
WorkerWaitFor(w) ==
    /\ Live /\ wpc[w] = "wait_for"
    /\ configMutex_' = NoThread
    /\ wpc' = [wpc EXCEPT ![w] = "sleep"]
    /\ UNCHANGED <<qvars, mvars, dvars, pvars, wphase, wOldHead, wNext, wmsgs,
                   nworkers, cvars, ncfg, cfgvars, destroyed, pb, lim, svars, gvars>>

\* wait_for returns (notify_all or timeout) once it has the mutex again; lock is
\* destroyed at the end of the block and releases it
WorkerWake(w) ==
    /\ Live /\ wpc[w] = "sleep" /\ configMutex_ \in {NoThread, w}
    /\ configMutex_' = NoThread
    /\ wpc' = [wpc EXCEPT ![w] = "loop"]
    /\ UNCHANGED <<qvars, mvars, dvars, pvars, wphase, wOldHead, wNext, wmsgs,
                   nworkers, cvars, ncfg, cfgvars, destroyed, pb, lim, svars, gvars>>

\* workerFunction with the steps of its wait
WorkerSteps(w) ==
    \/ WorkerLoop(w)
    \/ PopHead(w)
    \/ PopTail(w)
    \/ PopNext(w)
    \/ PopCAS(w)
    \/ PopMove(w)
    \/ WorkerProcess(w)
    \/ WorkerWaitLock(w)
    \/ WorkerWaitFor(w)
    \/ WorkerWake(w)

Worker(w) ==
    \/ WorkerLoop(w)
    \/ PopHead(w)
    \/ PopTail(w)
    \/ PopNext(w)
    \/ PopCAS(w)
    \/ PopMove(w)
    \/ WorkerProcess(w)
    \/ WorkerWait(w)

\* ============ controller threads: LogManager::start / stop / flush ========
\* start() without the running_ test
CallStartAlways(c) ==
    /\ Live /\ cpc[c] = "idle" /\ (ccalls[c] < lim.ctl[c] \/ (lim.restart /\ lim.ctl[c] > 0))
    /\ ccalls' = [ccalls EXCEPT ![c] = IF lim.restart THEN @ ELSE @ + 1]
    /\ cret' = [cret EXCEPT ![c] = "in_start"]
    /\ cpc' = [cpc EXCEPT ![c] = "start_ss"]
    /\ UNCHANGED <<qvars, mvars, dvars, pvars, wvars, ch, cnew, ncfg, cfgvars, destroyed, pb, configMutex_, lim, svars, gvars>>

\* start(): if (running_.load()) return true.  The calls of a controller thread
\* are counted against lim.ctl, except start() when lim.restart lets the
\* controller thread start the pipeline as often as it likes.
CallStart(c) ==
    /\ Live /\ cpc[c] = "idle" /\ (ccalls[c] < lim.ctl[c] \/ (lim.restart /\ lim.ctl[c] > 0))
    /\ ccalls' = [ccalls EXCEPT ![c] = IF lim.restart THEN @ ELSE @ + 1]
    /\ IF running
       THEN /\ cret' = [cret EXCEPT ![c] = "start_noop"]
            /\ cpc' = cpc
       ELSE /\ cret' = [cret EXCEPT ![c] = "in_start"]
            /\ cpc' = [cpc EXCEPT ![c] = "start_ss"]
    /\ UNCHANGED <<qvars, mvars, dvars, pvars, wvars, ch, cnew, ncfg, cfgvars, destroyed, pb, configMutex_, lim, svars, gvars>>

\* start(): shouldStop_ = false
StartSetStop(c) ==
    /\ Live /\ cpc[c] = "start_ss"
    /\ shouldStop' = FALSE
    /\ cpc' = [cpc EXCEPT ![c] = "start_run"]
    /\ UNCHANGED <<qvars, running, workerThread, minLevel, dvars, pvars, wvars,
                   cret, ch, cnew, ccalls, ncfg, cfgvars, destroyed, pb, configMutex_, lim, svars, gvars>>

\* start(): running_ = true
StartSetRun(c) ==
    /\ Live /\ cpc[c] = "start_run"
    /\ running' = TRUE
    /\ cpc' = [cpc EXCEPT ![c] = "start_spawn"]
    /\ UNCHANGED <<qvars, shouldStop, workerThread, minLevel, dvars, pvars, wvars,
                   cret, ch, cnew, ccalls, ncfg, cfgvars, destroyed, pb, configMutex_, lim, svars, gvars>>

\* start(): the temporary std::thread(&LogManager::workerFunction, this) starts running
StartSpawn(c) ==
    /\ Live /\ cpc[c] = "start_spawn"
    /\ nworkers' = nworkers + 1
    /\ wpc' = [wpc EXCEPT ![nworkers + 1] = "loop"]
    /\ cnew' = [cnew EXCEPT ![c] = nworkers + 1]
    /\ cpc' = [cpc EXCEPT ![c] = "start_assign"]
    /\ UNCHANGED <<qvars, mvars, dvars, pvars, wphase, wOldHead, wNext, wmsgs,
                   cret, ch, ccalls, ncfg, cfgvars, destroyed, pb, configMutex_, lim, svars, gvars>>

\* start(): workerThread_ = <the temporary>; return true.  Move-assigning onto a
\* joinable std::thread calls std::terminate; two unsynchronised assignments that
\* race may also both go through, the later one replacing the handle.
StartAssign(c) ==
    /\ Live /\ cpc[c] = "start_assign"
    /\ Access(workerThread = NoThread)
    /\ workerThread' = cnew[c]
    /\ cnew' = [cnew EXCEPT ![c] = NoThread]
    /\ cret' = [cret EXCEPT ![c] = "start_ok"]
    /\ cpc' = [cpc EXCEPT ![c] = "idle"]
    /\ UNCHANGED <<qvars, running, shouldStop, minLevel, dvars, pvars, wvars,
                   ch, ccalls, ncfg, cfgvars, destroyed, pb, configMutex_, lim, svars, dispatched, returned, stopSnap>>

\* stop() without the running_ test
CallStopAlways(c) ==
    /\ Live /\ cpc[c] = "idle" /\ ccalls[c] < lim.ctl[c]
    /\ ccalls' = [ccalls EXCEPT ![c] = @ + 1]
    /\ cret' = [cret EXCEPT ![c] = "in_stop"]
    /\ cpc' = [cpc EXCEPT ![c] = "stop_ss"]
    /\ stopSnap' = [stopSnap EXCEPT ![c] = returned]
    /\ UNCHANGED <<qvars, mvars, dvars, pvars, wvars, ch, cnew, ncfg, cfgvars, destroyed, pb, configMutex_, lim, svars,
                   dispatched, returned, aborted, ub>>

\* stop(): if (!running_.load()) return
CallStop(c) ==
    /\ Live /\ cpc[c] = "idle" /\ ccalls[c] < lim.ctl[c]
    /\ ccalls' = [ccalls EXCEPT ![c] = @ + 1]
    /\ IF ~running
       THEN /\ cret' = [cret EXCEPT ![c] = "stop_noop"]
            /\ UNCHANGED <<cpc, stopSnap>>
       ELSE /\ cret' = [cret EXCEPT ![c] = "in_stop"]
            /\ cpc' = [cpc EXCEPT ![c] = "stop_ss"]
            /\ stopSnap' = [stopSnap EXCEPT ![c] = returned]
    /\ UNCHANGED <<qvars, mvars, dvars, pvars, wvars, ch, cnew, ncfg, cfgvars, destroyed, pb, configMutex_, lim, svars,
                   dispatched, returned, aborted, ub>>

\* stop(): shouldStop_ = true
StopSetStop(c) ==
    /\ Live /\ cpc[c] = "stop_ss"
    /\ shouldStop' = TRUE
    /\ cpc' = [cpc EXCEPT ![c] = "stop_run"]
    /\ UNCHANGED <<qvars, running, workerThread, minLevel, dvars, pvars, wvars,
                   cret, ch, cnew, ccalls, ncfg, cfgvars, destroyed, pb, configMutex_, lim, svars, gvars>>

\* stop(): running_ = false; workerCondition_.notify_all()
StopSetRun(c) ==
    /\ Live /\ cpc[c] = "stop_run"
    /\ running' = FALSE
    /\ cpc' = [cpc EXCEPT ![c] = "stop_joinable"]
    /\ UNCHANGED <<qvars, shouldStop, workerThread, minLevel, dvars, pvars, wvars,
                   cret, ch, cnew, ccalls, ncfg, cfgvars, destroyed, pb, configMutex_, lim, svars, gvars>>

\* stop() that goes on to flush() without joining the worker thread
StopJoinableSkip(c) ==
    /\ Live /\ cpc[c] = "stop_joinable"
    /\ cpc' = [cpc EXCEPT ![c] = "flush_disp"]
    /\ UNCHANGED <<qvars, mvars, dvars, pvars, wvars, cret, ch, cnew, ccalls, ncfg, cfgvars, destroyed, pb, configMutex_, lim, svars, gvars>>

\* stop(): if (workerThread_.joinable()) -> join(), else straight to flush()
StopJoinable(c) ==
    /\ Live /\ cpc[c] = "stop_joinable"
    /\ IF workerThread # NoThread
       THEN /\ ch' = [ch EXCEPT ![c] = workerThread]
            /\ cpc' = [cpc EXCEPT ![c] = "stop_join"]
       ELSE /\ cpc' = [cpc EXCEPT ![c] = "flush_disp"]
            /\ ch' = ch
    /\ UNCHANGED <<qvars, mvars, dvars, pvars, wvars, cret, cnew, ccalls, ncfg, cfgvars, destroyed, pb, configMutex_, lim, svars, gvars>>

\* stop(): workerThread_.join() returns once the worker function has returned and
\* leaves the handle not joinable; joining a handle another thread has already
\* joined or replaced is undefined
StopJoin(c) ==
    /\ Live /\ cpc[c] = "stop_join"
    /\ wpc[ch[c]] = "done"
    /\ Access(workerThread = ch[c])
    /\ workerThread' = NoThread
    /\ ch' = [ch EXCEPT ![c] = NoThread]
    /\ cpc' = [cpc EXCEPT ![c] = "flush_disp"]
    /\ UNCHANGED <<qvars, running, shouldStop, minLevel, dvars, pvars, wvars,
                   cret, cnew, ccalls, ncfg, cfgvars, destroyed, pb, configMutex_, lim, svars, dispatched, returned, stopSnap>>

\* stop(): flush(), which begins: if (dispatcher_) dispatcher_->flush()
FlushDispatcher(c) ==
    /\ Live /\ cpc[c] = "flush_disp"
    /\ flushes' = dispatcherFlush(flushes)
    /\ cpc' = [cpc EXCEPT ![c] = "flush_wait"]
    /\ UNCHANGED <<qvars, mvars, outputs, outputs_, outputIds, sinkFor, ocalls, pvars, wvars, cret, ch, cnew, ccalls,
                   ncfg, cfgvars, destroyed, pb, configMutex_, lim, svars, gvars>>

\* flush(): while (!messageQueue_->empty()) ...; when it ends flush() (and stop()) return
FlushWait(c) ==
    /\ Live /\ cpc[c] = "flush_wait"
    /\ IF empty
       THEN /\ cpc' = [cpc EXCEPT ![c] = "idle"]
            /\ cret' = [cret EXCEPT ![c] = "stop_done"]
       ELSE /\ cpc' = [cpc EXCEPT ![c] = "flush_sleep"]
            /\ cret' = cret
    /\ UNCHANGED <<qvars, mvars, dvars, pvars, wvars, ch, cnew, ccalls, ncfg, cfgvars, destroyed, pb, configMutex_, lim, svars, gvars>>

\* flush(): std::this_thread::sleep_for(10ms)
FlushSleep(c) ==
    /\ Live /\ cpc[c] = "flush_sleep"
    /\ cpc' = [cpc EXCEPT ![c] = "flush_wait"]
    /\ UNCHANGED <<qvars, mvars, dvars, pvars, wvars, cret, ch, cnew, ccalls,
                   ncfg, cfgvars, destroyed, pb, configMutex_, lim, svars, gvars>>

\* ================= configuration: setConfig, addOutput ====================
\* setConfig that assigns config_->minLevel only
setConfigPartial(c) ==
    /\ Live /\ ncfg < lim.cfg /\ configMutex_ = NoThread
    /\ ncfg' = ncfg + 1
    /\ minLevel' = c.minLevel
    /\ cfgHistory' = Append(cfgHistory, c)
    /\ UNCHANGED <<qvars, running, shouldStop, workerThread, dvars, pvars, wvars, cvars,
                   enableColor, gcResult, ngc, destroyed, pb, configMutex_, lim, svars, gvars>>

\* setConfig(config): under configMutex_, config_ = std::make_unique<LogConfig>(config)
setConfig(c) ==
    /\ Live /\ ncfg < lim.cfg /\ configMutex_ = NoThread
    /\ ncfg' = ncfg + 1
    /\ minLevel' = c.minLevel
    /\ enableColor' = c.enableColor
    /\ cfgHistory' = Append(cfgHistory, c)
    /\ UNCHANGED <<qvars, running, shouldStop, workerThread, dvars, pvars, wvars, cvars,
                   gcResult, ngc, destroyed, pb, configMutex_, lim, svars, gvars>>

\* getConfig(): under configMutex_, return *config_
getConfig ==
    /\ Live /\ ngc < lim.gets /\ configMutex_ = NoThread
    /\ ngc' = ngc + 1
    /\ gcResult' = Config(minLevel, enableColor)
    /\ UNCHANGED <<qvars, mvars, dvars, pvars, wvars, cvars, ncfg, enableColor, cfgHistory,
                   destroyed, pb, configMutex_, lim, svars, gvars>>

\* LogManager::addOutput(output): outputs_.push_back(std::move(output)); the
\* dispatcher is given a new ConsoleOutput, not the object passed in
addOutput ==
    /\ Live /\ ocalls.add < lim.out
    /\ outputs_' = Append(outputs_, <<>>)
    /\ outputIds' = Append(outputIds, ocalls.add + 1)
    /\ outputs' = Append(outputs, <<>>)
    /\ flushes' = Append(flushes, 0)
    /\ sinkFor' = Append(sinkFor, ocalls.add + 1)
    /\ ocalls' = [ocalls EXCEPT !.add = @ + 1]
    /\ UNCHANGED <<qvars, mvars, pvars, wvars, cvars, ncfg, cfgvars, destroyed, pb, configMutex_, lim, svars, gvars>>

\* s without its i-th element (1-based)
RemoveAt(s, i) == [j \in 1..(Len(s) - 1) |-> IF j < i THEN s[j] ELSE s[j + 1]]

\* ---- LogManager::removeOutput(index): false when index >= outputs_.size();
\* otherwise dispatcher_->removeOutput(index), which erases the dispatcher's sink
\* at index if it has one, then outputs_.erase(begin + index) ----
removeOutput(index) ==
    /\ Live /\ ocalls.remove < MaxRemoveCalls
    /\ ocalls' = [ocalls EXCEPT !.remove = @ + 1]
    /\ IF index >= Len(outputs_)
       THEN UNCHANGED <<outputs, flushes, outputs_, outputIds, sinkFor>>
       ELSE /\ outputs_' = RemoveAt(outputs_, index + 1)
            /\ outputIds' = RemoveAt(outputIds, index + 1)
            /\ IF index >= Len(outputs)
               THEN UNCHANGED <<outputs, flushes, sinkFor>>
               ELSE /\ outputs' = RemoveAt(outputs, index + 1)
                    /\ flushes' = RemoveAt(flushes, index + 1)
                    /\ sinkFor' = RemoveAt(sinkFor, index + 1)
    /\ UNCHANGED <<qvars, mvars, pvars, wvars, cvars, ncfg, cfgvars, destroyed, pb, configMutex_, lim, svars, gvars>>

\* ---- LogManager::clearOutputs: outputs_.clear(); dispatcher_->clearOutputs() ----
clearOutputs ==
    /\ Live /\ ocalls.clear < MaxClearCalls
    /\ ocalls' = [ocalls EXCEPT !.clear = @ + 1]
    /\ outputs_' = <<>> /\ outputIds' = <<>>
    /\ outputs' = <<>> /\ flushes' = <<>> /\ sinkFor' = <<>>
    /\ UNCHANGED <<qvars, mvars, pvars, wvars, cvars, ncfg, cfgvars, destroyed, pb, configMutex_, lim, svars, gvars>>

StartStop(c) ==
    \/ CallStart(c) \/ StartSetStop(c) \/ StartSetRun(c) \/ StartSpawn(c) \/ StartAssign(c)
    \/ CallStop(c) \/ StopSetStop(c) \/ StopSetRun(c) \/ StopJoinable(c) \/ StopJoin(c)
    \/ FlushDispatcher(c) \/ FlushWait(c) \/ FlushSleep(c)

Next ==
    \/ \E p \in Producers : Producer(p)
    \/ \E w \in Workers : Worker(w)
    \/ \E c \in Controllers : StartStop(c)

Spec == Init /\ [][Next]_vars

\* Configuration: one producer logging at two levels, setConfig and addOutput
\* running beside it, one start() call; LogConfig::maxQueueSize is QueueCapacity
InitCfg ==
    InitWith([logs |-> [p \in Producers |-> IF p = 1 THEN MaxLogsCfg ELSE 0],
              levels |-> InputLevels,
              ctl |-> [c \in Controllers |-> IF c = 1 THEN 1 ELSE 0],
              cfg |-> MaxSetConfig, out |-> MaxOutputs, restart |-> FALSE, gets |-> 0, waits |-> 0,
              cap |-> QueueCapacity])

StartOnly(c) ==
    \/ CallStart(c) \/ StartSetStop(c) \/ StartSetRun(c) \/ StartSpawn(c) \/ StartAssign(c)

NextCfg ==
    \/ \E p \in Producers : Producer(p)
    \/ \E w \in Workers : Worker(w)
    \/ \E c \in Controllers : StartOnly(c)
    \/ \E m \in ConfigLevels : setConfig(Config(m, TRUE))
    \/ addOutput

SpecCfg == InitCfg /\ [][NextCfg]_vars

\* Stop ordering: one producer, one sink registered with the dispatcher, one
\* controller thread calling start() and stop()
InitStop ==
    InitWith([logs |-> [p \in Producers |-> IF p = 1 THEN MaxLogsStop ELSE 0],
              levels |-> {INFO},
              ctl |-> [c \in Controllers |-> IF c = 1 THEN MaxCtlCallsStop ELSE 0],
              cfg |-> 0, out |-> 1, restart |-> FALSE, gets |-> 0, waits |-> 0,
              cap |-> DefaultMaxQueueSize])

NextStop ==
    \/ \E p \in Producers : Producer(p)
    \/ \E w \in Workers : Worker(w)
    \/ \E c \in Controllers : StartStop(c)
    \/ addOutput

SpecStop == InitStop /\ [][NextStop]_vars

\* Registration: addOutput, removeOutput and clearOutputs on a started pipeline,
\* beside one producer
InitOut ==
    InitWith([logs |-> [p \in Producers |-> IF p = 1 THEN MaxLogsReg ELSE 0],
              levels |-> {INFO},
              ctl |-> [c \in Controllers |-> IF c = 1 THEN 1 ELSE 0],
              cfg |-> 0, out |-> MaxOutputsReg, restart |-> FALSE, gets |-> 0, waits |-> 0,
              cap |-> DefaultMaxQueueSize])

NextOut ==
    \/ \E p \in Producers : Producer(p)
    \/ \E w \in Workers : Worker(w)
    \/ \E c \in Controllers : StartOnly(c)
    \/ addOutput
    \/ \E index \in 0..MaxOutputsReg : removeOutput(index)
    \/ clearOutputs

SpecOut == InitOut /\ [][NextOut]_vars

\* Configuration snapshots: threads calling setConfig, getConfig and log on a
\* pipeline that has not been started
Configs == {Config(m, e) : m \in ConfigLevels, e \in BOOLEAN}

InitSnap ==
    InitWith([logs |-> [p \in Producers |-> IF p = 1 THEN MaxLogsSnap ELSE 0],
              levels |-> InputLevels,
              ctl |-> [c \in Controllers |-> 0],
              cfg |-> MaxSetConfigSnap, out |-> 0, restart |-> FALSE, gets |-> MaxGetConfig, waits |-> 0,
              cap |-> DefaultMaxQueueSize])

NextSnap ==
    \/ \E p \in Producers : Producer(p)
    \/ \E c \in Configs : setConfig(c)
    \/ getConfig

SpecSnap == InitSnap /\ [][NextSnap]_vars

\* cleanup that leaves the sentinel allocated
RECURSIVE cleanupNoSentinel(_, _)
cleanupNoSentinel(h, al) ==
    IF h = tail \/ next[h] = Nil
    THEN [alive |-> al, head |-> h]
    ELSE cleanupNoSentinel(next[h], [al EXCEPT ![h] = FALSE])

\* ---- LockFreeQueue::cleanup, run by one thread: while (pop(item)) {} from head
\* h on (each pop deletes the old head), then delete head_.load() ----
RECURSIVE cleanup(_, _)
cleanup(h, al) ==
    IF h = tail \/ next[h] = Nil
    THEN [alive |-> [al EXCEPT ![h] = FALSE], head |-> h]
    ELSE cleanup(next[h], [al EXCEPT ![h] = FALSE])

\* the nodes cleanup pops, counted as size_.fetch_sub does
RECURSIVE cleanupPops(_)
cleanupPops(h) == IF h = tail \/ next[h] = Nil THEN 0 ELSE 1 + cleanupPops(next[h])

\* no thread is inside a call on the LogManager and no worker thread is running
Quiescent ==
    /\ \A p \in Producers : ppc[p] = "idle"
    /\ \A w \in Workers : wpc[w] \in {"unborn", "done"}
    /\ \A c \in Controllers : cpc[c] = "idle"

\* ---- LogManager::~LogManager on a pipeline that is not running: stop() returns
\* at once, then messageQueue_ is destroyed: ~LockFreeQueue calls cleanup() ----
Destroy ==
    /\ Live /\ Quiescent /\ ~running
    /\ destroyed' = TRUE
    /\ alive' = cleanup(head, alive).alive
    /\ head' = cleanup(head, alive).head
    /\ size' = size - cleanupPops(head)
    /\ UNCHANGED <<tail, next, data, mvars, dvars, pvars, wvars, cvars, ncfg, cfgvars,
                   pb, configMutex_, lim, svars, gvars>>

\* Node reclamation: two producers, one controller thread that starts and stops the
\* pipeline (one consumer at a time), then the destructor
InitQueue ==
    InitWith([logs |-> [p \in Producers |-> MaxLogsQueue],
              levels |-> {INFO},
              ctl |-> [c \in Controllers |-> IF c = 1 THEN MaxCtlCallsQueue ELSE 0],
              cfg |-> 0, out |-> 0, restart |-> FALSE, gets |-> 0, waits |-> 0,
              cap |-> DefaultMaxQueueSize])

NextQueue ==
    \/ \E p \in Producers : Producer(p)
    \/ \E w \in Workers : Worker(w)
    \/ \E c \in Controllers : StartStop(c)
    \/ Destroy

SpecQueue == InitQueue /\ [][NextQueue]_vars

\* popBatch that keeps what items held
PopBatchCallKeep(w, max) ==
    /\ Live /\ wpc[w] = "batch_ret" /\ pb.calls < MaxBatchCalls
    /\ pb' = [maxCount |-> max, head0 |-> head, calls |-> pb.calls + 1]
    /\ wpc' = [wpc EXCEPT ![w] = "pop_head"]
    /\ UNCHANGED <<qvars, mvars, dvars, pvars, wphase, wOldHead, wNext, wmsgs, nworkers,
                   cvars, ncfg, cfgvars, destroyed, configMutex_, lim, svars, gvars>>

\* ---- LockFreeQueue::popBatch(items, maxCount) called by a thread that passes the
\* vector its previous call filled: items.clear(); count = 0 ----
PopBatchCall(w, max) ==
    /\ Live /\ wpc[w] = "batch_ret" /\ pb.calls < MaxBatchCalls
    /\ wmsgs' = [wmsgs EXCEPT ![w] = <<>>]
    /\ pb' = [maxCount |-> max, head0 |-> head, calls |-> pb.calls + 1]
    /\ wpc' = [wpc EXCEPT ![w] = "pop_head"]
    /\ UNCHANGED <<qvars, mvars, dvars, pvars, wphase, wOldHead, wNext, nworkers,
                   cvars, ncfg, cfgvars, destroyed, configMutex_, lim, svars, gvars>>

\* the thread calling popBatch: the call, then the pop() calls of its loop
BatchConsumer(w) ==
    \/ \E max \in 0..MaxBatch : PopBatchCall(w, max)
    \/ PopHead(w)
    \/ PopTail(w)
    \/ PopNext(w)
    \/ PopCAS(w)
    \/ PopMove(w)

\* LockFreeQueue with two producers and one thread calling popBatch
InitBatch ==
    /\ ManagerInitAs([logs |-> [p \in Producers |-> IF p = 1 THEN MaxLogsBatch ELSE 1],
                      levels |-> {INFO},
                      ctl |-> [c \in Controllers |-> 0],
                      cfg |-> 0, out |-> 0, restart |-> FALSE, gets |-> 0, waits |-> 0,
                      cap |-> DefaultMaxQueueSize], 1, "batch_ret", "batch")
    /\ AsyncInit
    /\ DispatcherInit(<<>>, "none", NoRoute, 0)
    /\ DecoratorInit(<<>>, TRUE)

NextBatch ==
    \/ \E p \in Producers : Producer(p)
    \/ BatchConsumer(1)

SpecBatch == InitBatch /\ [][NextBatch]_vars

\* LockFreeQueue with two producers and two consumer threads, each consumer
\* running the drain loop (popBatch, then processing) on the same queue
Consumers == 2

InitMPMC ==
    /\ ManagerInitWith([logs |-> [p \in Producers |-> MaxLogsMPMC],
                        levels |-> {INFO},
                        ctl |-> [c \in Controllers |-> 0],
                        cfg |-> 0, out |-> 0, restart |-> FALSE, gets |-> 0, waits |-> 0,
                        cap |-> DefaultMaxQueueSize], Consumers)
    /\ AsyncInit
    /\ DispatcherInit(<<>>, "none", NoRoute, 0)
    /\ DecoratorInit(<<>>, TRUE)

NextMPMC ==
    \/ \E p \in Producers : Producer(p)
    \/ \E w \in Workers : Worker(w)

SpecMPMC == InitMPMC /\ [][NextMPMC]_vars

\* Two controller threads calling start() and stop() concurrently, one producer
InitMC ==
    InitWith([logs |-> [p \in Producers |-> IF p = 1 THEN MaxLogsMC ELSE 0],
              levels |-> {INFO},
              ctl |-> [c \in Controllers |-> IF c = 1 THEN MaxCtlCallsMC ELSE 1],
              cfg |-> 0, out |-> 0, restart |-> FALSE, gets |-> 0, waits |-> 0,
              cap |-> DefaultMaxQueueSize])

SpecMC == InitMC /\ [][Next]_vars

\* Fair scheduling: two producers, one controller thread that calls stop()
\* MaxCtlCallsFair times and start() whenever it likes
InitFair ==
    InitWith([logs |-> [p \in Producers |-> MaxLogsFair],
              levels |-> {INFO},
              ctl |-> [c \in Controllers |-> IF c = 1 THEN MaxCtlCallsFair ELSE 0],
              cfg |-> 0, out |-> 0, restart |-> TRUE, gets |-> 0, waits |-> 0,
              cap |-> DefaultMaxQueueSize])

InCall(c) ==
    \/ StartSetStop(c) \/ StartSetRun(c) \/ StartSpawn(c) \/ StartAssign(c)
    \/ StopSetStop(c) \/ StopSetRun(c) \/ StopJoinable(c) \/ StopJoin(c)
    \/ FlushDispatcher(c) \/ FlushWait(c) \/ FlushSleep(c)

InPush(p) == PushLoad(p) \/ PushCAS(p) \/ PushLink(p) \/ PushSize(p)

NextFair ==
    \/ \E p \in Producers : Producer(p)
    \/ \E w \in Workers : Worker(w)
    \/ \E c \in Controllers : CallStart(c) \/ CallStop(c) \/ InCall(c)

\* Every thread that is inside a call keeps being scheduled, and the application
\* starts the pipeline again whenever its controller thread is idle.
Fairness ==
    /\ \A p \in Producers : WF_vars(InPush(p))
    /\ \A w \in Workers : WF_vars(Worker(w))
    /\ \A c \in Controllers : WF_vars(InCall(c)) /\ WF_vars(CallStart(c))

FairSpec == InitFair /\ [][NextFair]_vars /\ Fairness

\* Non-blocking producers: producer 1 logging beside one log() call of producer 2,
\* the worker with the steps of its wait, one controller thread calling start()
InitBlock ==
    InitWith([logs |-> [p \in Producers |-> IF p = 1 THEN MaxLogsBlock ELSE 1],
              levels |-> {INFO},
              ctl |-> [c \in Controllers |-> IF c = 1 THEN MaxCtlCallsBlock ELSE 0],
              cfg |-> 1, out |-> 0, restart |-> FALSE, gets |-> 0, waits |-> 0,
              cap |-> DefaultMaxQueueSize])

NextBlock ==
    \/ \E p \in Producers : Producer(p)
    \/ \E w \in Workers : WorkerSteps(w)
    \/ \E c \in Controllers : StartStop(c)
    \/ setConfig(Config(WARN, TRUE))

\* every thread inside push, and the worker thread (at most one runs at a time),
\* keep being scheduled
SpecBlock ==
    /\ InitBlock /\ [][NextBlock]_vars
    /\ \A p \in Producers : WF_vars(InPush(p))
    /\ WF_vars(\E w \in Workers : WorkerSteps(w))

\* ===================== AsyncLogSystem (src/async_log_system.cpp) ==========
\* ---- AsyncLogSystem::maxQueueSize_ ----
maxQueueSize_ == lim.cap

\* The value of a dropped-record counter: AsyncLogSystem (like LogManager) has no
\* member that counts rejected records, a rejection only prints a line on std::cerr
droppedCounter == 0

\* LogSystem::writeToConsole: if (!config.enableConsole) return; std::cout << ...
writeToConsole(out, msg) == IF lsConfig.enableConsole THEN Append(out, msg) ELSE out

\* LogSystem::log that ignores config.minLevel
LogSystemLogAll(out, msg) == writeToConsole(out, msg)

\* LogSystem::log: if (level < config.minLevel) return; writeToConsole(msg)
LogSystemLog(out, msg) == IF msg.level < lsConfig.minLevel THEN out ELSE writeToConsole(out, msg)

\* levels the threads call logAsync with (through info() and warn())
AsyncLevels == {LS_INFO, LS_WARN}

\* logAsync: if (!running_) { LogSystem::log(level, message); return; }
LogAsyncCall(p, l) ==
    /\ apc[p] = "idle" /\ acalls[p] < lim.logs[p] /\ l \in lim.levels
    /\ acalls' = [acalls EXCEPT ![p] = @ + 1]
    /\ belowMin' = IF l < lsConfig.minLevel
                   THEN belowMin \cup {Rec(p, acalls[p] + 1, l)} ELSE belowMin
    /\ wfBusy' = (wfBusy \/ wfpc # "idle")
    /\ IF ~asyncRunning
       THEN /\ console' = LogSystemLog(console, Rec(p, acalls[p] + 1, l))
            /\ asyncSync' = Append(asyncSync, Rec(p, acalls[p] + 1, l))
            /\ UNCHANGED <<apc, arec>>
       ELSE /\ apc' = [apc EXCEPT ![p] = "check"]
            /\ arec' = [arec EXCEPT ![p] = Rec(p, acalls[p] + 1, l)]
            /\ UNCHANGED <<console, asyncSync>>
    /\ UNCHANGED <<asyncQueue, asyncRunning, asyncInitialized, asyncThread, lsConfig,
                   awpc, awmsg, acpc, accalls, cerrDropped, asyncAccepted, lmvars, lim,
                   dspvars, decvars, alvars, wfpc, wfret, wfTimeout, wfSnap, nwait>>

\* logAsync: if (messageQueue_->size() >= maxQueueSize_) { std::cerr << ...; return; }
LogAsyncCheck(p) ==
    /\ apc[p] = "check"
    /\ wfBusy' = (wfBusy \/ wfpc # "idle")
    /\ IF Len(asyncQueue) >= maxQueueSize_
       THEN /\ cerrDropped' = Append(cerrDropped, arec[p])
            /\ apc' = [apc EXCEPT ![p] = "idle"]
       ELSE /\ apc' = [apc EXCEPT ![p] = "push"]
            /\ UNCHANGED cerrDropped
    /\ UNCHANGED <<asyncQueue, asyncRunning, asyncInitialized, asyncThread, lsConfig,
                   acalls, arec, awpc, awmsg, acpc, accalls, console, asyncAccepted,
                   asyncSync, lmvars, lim,
                   dspvars, decvars, alvars, wfpc, wfret, wfTimeout, wfSnap, nwait, belowMin>>

\* logAsync: LogMessage msg(level, message); messageQueue_->push(msg)
LogAsyncPush(p) ==
    /\ apc[p] = "push"
    /\ wfBusy' = (wfBusy \/ wfpc # "idle")
    /\ asyncQueue' = Append(asyncQueue, arec[p])
    /\ asyncAccepted' = Append(asyncAccepted, arec[p])
    /\ apc' = [apc EXCEPT ![p] = "idle"]
    /\ UNCHANGED <<asyncRunning, asyncInitialized, asyncThread, lsConfig, acalls, arec,
                   awpc, awmsg, acpc, accalls, console, cerrDropped, asyncSync, lmvars, lim,
                   dspvars, decvars, alvars, wfpc, wfret, wfTimeout, wfSnap, nwait, belowMin>>

AsyncProducer(p) ==
    \/ \E l \in AsyncLevels : LogAsyncCall(p, l)
    \/ LogAsyncCheck(p)
    \/ LogAsyncPush(p)

\* workerFunction: while (running_), and after it while (messageQueue_->tryPop(msg))
AsyncWorkerTest ==
    /\ awpc = "test"
    /\ awpc' = IF asyncRunning THEN "pop" ELSE "final_pop"
    /\ UNCHANGED <<asyncQueue, asyncRunning, asyncInitialized, asyncThread, lsConfig,
                   apc, acalls, arec, awmsg, acpc, accalls, console, cerrDropped,
                   asyncAccepted, asyncSync, lmvars, lim,
                   dspvars, decvars, alvars, awvars, belowMin>>

\* workerFunction: messageQueue_->tryPop(msg) in either loop
AsyncWorkerPop ==
    /\ awpc \in {"pop", "final_pop"}
    \* workerFunction returns when the second loop finds the queue empty
    /\ asyncWorkers' = IF awpc = "final_pop" /\ asyncQueue = <<>>
                       THEN asyncWorkers - 1 ELSE asyncWorkers
    /\ IF asyncQueue # <<>>
       THEN /\ awmsg' = Head(asyncQueue)
            /\ asyncQueue' = Tail(asyncQueue)
            /\ awpc' = IF awpc = "pop" THEN "process" ELSE "final_process"
       ELSE /\ awpc' = IF awpc = "pop" THEN "sleep" ELSE "done"
            /\ UNCHANGED <<awmsg, asyncQueue>>
    /\ UNCHANGED <<asyncRunning, asyncInitialized, asyncThread, lsConfig, apc, acalls, arec,
                   acpc, accalls, console, cerrDropped, asyncAccepted, asyncSync, lmvars, lim,
                   dspvars, decvars, acLast, asyncSpawned, awvars, belowMin>>

\* workerFunction: processMessage(msg), that is writeToConsole(msg)
AsyncWorkerProcess ==
    /\ awpc \in {"process", "final_process"}
    /\ console' = writeToConsole(console, awmsg)
    /\ awpc' = IF awpc = "process" THEN "test" ELSE "final_pop"
    /\ UNCHANGED <<asyncQueue, asyncRunning, asyncInitialized, asyncThread, lsConfig,
                   apc, acalls, arec, awmsg, acpc, accalls, cerrDropped, asyncAccepted,
                   asyncSync, lmvars, lim,
                   dspvars, decvars, alvars, awvars, belowMin>>

\* workerFunction: std::this_thread::sleep_for(workerTimeoutMs_)
AsyncWorkerSleep ==
    /\ awpc = "sleep"
    /\ awpc' = "test"
    /\ UNCHANGED <<asyncQueue, asyncRunning, asyncInitialized, asyncThread, lsConfig,
                   apc, acalls, arec, awmsg, acpc, accalls, console, cerrDropped,
                   asyncAccepted, asyncSync, lmvars, lim,
                   dspvars, decvars, alvars, awvars, belowMin>>

AsyncWorker == AsyncWorkerTest \/ AsyncWorkerPop \/ AsyncWorkerProcess \/ AsyncWorkerSleep

\* start() without the test of initialized_ and running_
AsyncStartCallAlways ==
    /\ acpc = "idle" /\ accalls < lim.ctl[1]
    /\ accalls' = accalls + 1
    /\ acLast' = "start"
    /\ acpc' = "start_run"
    /\ UNCHANGED <<asyncQueue, asyncRunning, asyncInitialized, asyncThread, lsConfig,
                   apc, acalls, arec, awpc, awmsg, console, cerrDropped, asyncAccepted,
                   asyncSync, lmvars, lim,
                   dspvars, decvars, asyncWorkers, asyncSpawned, awvars, belowMin>>

\* start(): if (initialized_ || running_) return
AsyncStartCall ==
    /\ acpc = "idle" /\ accalls < lim.ctl[1]
    /\ accalls' = accalls + 1
    /\ acLast' = "start"
    /\ acpc' = IF asyncInitialized \/ asyncRunning THEN "idle" ELSE "start_run"
    /\ UNCHANGED <<asyncQueue, asyncRunning, asyncInitialized, asyncThread, lsConfig,
                   apc, acalls, arec, awpc, awmsg, console, cerrDropped, asyncAccepted,
                   asyncSync, lmvars, lim,
                   dspvars, decvars, asyncWorkers, asyncSpawned, awvars, belowMin>>

\* start(): running_ = true
AsyncStartRun ==
    /\ acpc = "start_run"
    /\ asyncRunning' = TRUE
    /\ acpc' = "start_init"
    /\ UNCHANGED <<asyncQueue, asyncInitialized, asyncThread, lsConfig, apc, acalls, arec,
                   awpc, awmsg, accalls, console, cerrDropped, asyncAccepted, asyncSync,
                   lmvars, lim,
                   dspvars, decvars, alvars, awvars, belowMin>>

\* start(): initialized_ = true
AsyncStartInit ==
    /\ acpc = "start_init"
    /\ asyncInitialized' = TRUE
    /\ acpc' = "start_spawn"
    /\ UNCHANGED <<asyncQueue, asyncRunning, asyncThread, lsConfig, apc, acalls, arec,
                   awpc, awmsg, accalls, console, cerrDropped, asyncAccepted, asyncSync,
                   lmvars, lim,
                   dspvars, decvars, alvars, awvars, belowMin>>

\* start(): workerThread_ = std::thread(&AsyncLogSystem::workerFunction, this)
AsyncStartSpawn ==
    /\ acpc = "start_spawn"
    /\ awpc' = "test"
    /\ asyncWorkers' = asyncWorkers + 1
    /\ asyncSpawned' = asyncSpawned + 1
    /\ asyncThread' = TRUE
    /\ acpc' = "idle"
    /\ UNCHANGED <<asyncQueue, asyncRunning, asyncInitialized, lsConfig, apc, acalls, arec,
                   awmsg, accalls, console, cerrDropped, asyncAccepted, asyncSync,
                   lmvars, lim,
                   dspvars, decvars, acLast, awvars, belowMin>>

\* stop(): if (!running_) return
AsyncStopCall ==
    /\ acpc = "idle" /\ accalls < lim.ctl[1]
    /\ accalls' = accalls + 1
    /\ acLast' = "stop"
    /\ acpc' = IF ~asyncRunning THEN "idle" ELSE "stop_run"
    /\ UNCHANGED <<asyncQueue, asyncRunning, asyncInitialized, asyncThread, lsConfig,
                   apc, acalls, arec, awpc, awmsg, console, cerrDropped, asyncAccepted,
                   asyncSync, lmvars, lim,
                   dspvars, decvars, asyncWorkers, asyncSpawned, awvars, belowMin>>

\* stop(): running_ = false
AsyncStopRun ==
    /\ acpc = "stop_run"
    /\ asyncRunning' = FALSE
    /\ acpc' = "stop_join"
    /\ UNCHANGED <<asyncQueue, asyncInitialized, asyncThread, lsConfig, apc, acalls, arec,
                   awpc, awmsg, accalls, console, cerrDropped, asyncAccepted, asyncSync,
                   lmvars, lim,
                   dspvars, decvars, alvars, awvars, belowMin>>

\* stop(): if (workerThread_.joinable()) workerThread_.join()
AsyncStopJoin ==
    /\ acpc = "stop_join"
    /\ asyncThread => awpc = "done"
    /\ asyncThread' = FALSE
    /\ acpc' = "stop_init"
    /\ UNCHANGED <<asyncQueue, asyncRunning, asyncInitialized, lsConfig, apc, acalls, arec,
                   awpc, awmsg, accalls, console, cerrDropped, asyncAccepted, asyncSync,
                   lmvars, lim,
                   dspvars, decvars, alvars, awvars, belowMin>>

\* stop(): initialized_ = false
AsyncStopInit ==
    /\ acpc = "stop_init"
    /\ asyncInitialized' = FALSE
    /\ acpc' = "idle"
    /\ UNCHANGED <<asyncQueue, asyncRunning, asyncThread, lsConfig, apc, acalls, arec,
                   awpc, awmsg, accalls, console, cerrDropped, asyncAccepted, asyncSync,
                   lmvars, lim,
                   dspvars, decvars, alvars, awvars, belowMin>>

AsyncController ==
    \/ AsyncStartCall \/ AsyncStartRun \/ AsyncStartInit \/ AsyncStartSpawn
    \/ AsyncStopCall \/ AsyncStopRun \/ AsyncStopJoin \/ AsyncStopInit

\* AsyncLogSystem: two threads calling logAsync, one thread calling start() and
\* stop(), the worker thread; maxQueueSize_ is QueueCapacity
InitAsync ==
    InitWith([logs |-> [p \in Producers |-> MaxLogsAsync],
              levels |-> {LS_INFO},
              ctl |-> [c \in Controllers |-> IF c = 1 THEN MaxCtlCallsAsync ELSE 0],
              cfg |-> 0, out |-> 0, restart |-> FALSE, gets |-> 0, waits |-> 0,
              cap |-> QueueCapacity])

NextAsync ==
    \/ \E p \in Producers : AsyncProducer(p)
    \/ AsyncWorker
    \/ AsyncController

SpecAsync == InitAsync /\ [][NextAsync]_vars

\* configurations setConfig is called with, and the timeouts waitForCompletion is
LsConfigs == {[minLevel |-> m, enableConsole |-> e] : m \in {LS_INFO, LS_WARN}, e \in BOOLEAN}
Timeouts == {0, 1000}

\* ---- LogSystem::setConfig: config = newConfig ----
LogSystemSetConfig(c) ==
    /\ lim.cfg > 0 /\ c # lsConfig
    /\ lsConfig' = c
    /\ UNCHANGED <<asyncQueue, asyncRunning, asyncInitialized, asyncThread,
                   apc, acalls, arec, awpc, awmsg, acpc, accalls, console, cerrDropped,
                   asyncAccepted, asyncSync, lmvars, lim,
                   dspvars, decvars, alvars, awvars, belowMin>>

\* waitForCompletion(t): if (!running_) return true; start = steady_clock::now()
WaitCall(t) ==
    /\ wfpc = "idle" /\ nwait < lim.waits
    /\ nwait' = nwait + 1
    /\ wfTimeout' = t
    /\ wfSnap' = Range(asyncAccepted)
    /\ wfBusy' = (\E p \in Producers : apc[p] # "idle")
    /\ IF ~asyncRunning
       THEN /\ wfret' = "true_stopped"
            /\ wfpc' = wfpc
       ELSE /\ wfret' = "waiting"
            /\ wfpc' = "test"
    /\ UNCHANGED <<asyncQueue, asyncRunning, asyncInitialized, asyncThread, lsConfig,
                   apc, acalls, arec, awpc, awmsg, acpc, accalls, console, cerrDropped,
                   asyncAccepted, asyncSync, lmvars, lim,
                   dspvars, decvars, alvars, belowMin>>

\* waitForCompletion: while (messageQueue_->size() > 0) { if (timeout_ms > 0 &&
\* elapsed >= timeout_ms) return false; ... }  return true.  Whether the timeout
\* has elapsed is up to the clock.
WaitTest ==
    /\ wfpc = "test"
    /\ IF Len(asyncQueue) > 0
       THEN \E elapsed \in (IF wfTimeout > 0 THEN BOOLEAN ELSE {FALSE}) :
                IF elapsed
                THEN wfret' = "false" /\ wfpc' = "idle"
                ELSE wfret' = wfret /\ wfpc' = "sleep"
       ELSE wfret' = "true" /\ wfpc' = "idle"
    /\ UNCHANGED <<asyncQueue, asyncRunning, asyncInitialized, asyncThread, lsConfig,
                   apc, acalls, arec, awpc, awmsg, acpc, accalls, console, cerrDropped,
                   asyncAccepted, asyncSync, lmvars, lim,
                   dspvars, decvars, alvars, wfTimeout, wfSnap, wfBusy, nwait, belowMin>>

\* waitForCompletion: std::this_thread::sleep_for(10ms)
WaitSleep ==
    /\ wfpc = "sleep"
    /\ wfpc' = "test"
    /\ UNCHANGED <<asyncQueue, asyncRunning, asyncInitialized, asyncThread, lsConfig,
                   apc, acalls, arec, awpc, awmsg, acpc, accalls, console, cerrDropped,
                   asyncAccepted, asyncSync, lmvars, lim,
                   dspvars, decvars, alvars, wfret, wfTimeout, wfSnap, wfBusy, nwait,
                   belowMin>>

WaitForCompletion == (\E t \in Timeouts : WaitCall(t)) \/ WaitTest \/ WaitSleep

\* AsyncLogSystem lifecycle: one thread calling start() and stop(), one thread
\* calling info(), the worker
InitUse ==
    InitWith([logs |-> [p \in Producers |-> IF p = 1 THEN MaxLogsLife ELSE 0],
              levels |-> {LS_INFO},
              ctl |-> [c \in Controllers |-> IF c = 1 THEN MaxCtlCallsLife ELSE 0],
              cfg |-> 0, out |-> 0, restart |-> FALSE, gets |-> 0, waits |-> 0,
              cap |-> DefaultMaxQueueSize])

\* a thread inside logAsync, start() or stop(), and the worker thread, keep being
\* scheduled
AsyncInCall ==
    \/ \E p \in Producers : LogAsyncCheck(p) \/ LogAsyncPush(p)
    \/ AsyncStartRun \/ AsyncStartInit \/ AsyncStartSpawn
    \/ AsyncStopRun \/ AsyncStopJoin \/ AsyncStopInit

SpecUse ==
    InitUse /\ [][NextAsync]_vars /\ WF_vars(AsyncWorker) /\ WF_vars(AsyncInCall)

\* Level filtering: one thread calling info() and warn(), one calling setConfig, one
\* calling start() and stop(), the worker
InitLevel ==
    InitWith([logs |-> [p \in Producers |-> IF p = 1 THEN MaxLogsLevel ELSE 0],
              levels |-> AsyncLevels,
              ctl |-> [c \in Controllers |-> IF c = 1 THEN MaxCtlCallsLevel ELSE 0],
              cfg |-> 1, out |-> 0, restart |-> FALSE, gets |-> 0, waits |-> 0,
              cap |-> DefaultMaxQueueSize])

NextLevel ==
    \/ \E p \in Producers : AsyncProducer(p)
    \/ AsyncWorker
    \/ AsyncController
    \/ \E c \in LsConfigs : LogSystemSetConfig(c)

SpecLevel == InitLevel /\ [][NextLevel]_vars

\* waitForCompletion: one thread calling info(), one calling start(), one calling
\* waitForCompletion, the worker
InitWait ==
    InitWith([logs |-> [p \in Producers |-> IF p = 1 THEN MaxLogsWait ELSE 0],
              levels |-> {LS_INFO},
              ctl |-> [c \in Controllers |-> IF c = 1 THEN 1 ELSE 0],
              cfg |-> 0, out |-> 0, restart |-> FALSE, gets |-> 0, waits |-> MaxWaits,
              cap |-> DefaultMaxQueueSize])

NextWait ==
    \/ \E p \in Producers : AsyncProducer(p)
    \/ AsyncWorker
    \/ AsyncStartCall \/ AsyncStartRun \/ AsyncStartInit \/ AsyncStartSpawn
    \/ WaitForCompletion

SpecWait == InitWait /\ [][NextWait]_vars

\* ==================== LogDispatcher (src/logDispatcher.cpp) ================
\* what the filter function installed by setMessageFilter returns for msg
FilterAccepts(f, msg) == IF f = "warn_or_above" THEN msg.level >= WARN ELSE TRUE

\* shouldDispatch that ignores the filter
shouldDispatchAlways(msg) == TRUE

\* ---- LogDispatcher::shouldDispatch ----
shouldDispatch(msg) ==
    IF messageFilter_ # "none" THEN FilterAccepts(messageFilter_, msg) ELSE TRUE

\* roundRobinRouting with the counter incremented before it is used
roundRobinRoutingPre ==
    IF sinks = <<>> THEN <<>> ELSE <<(roundRobinCounter_ + 1) % Len(sinks)>>

\* ---- LogDispatcher::roundRobinRouting (the counter is advanced by Dispatch) ----
roundRobinRouting ==
    IF sinks = <<>> THEN <<>> ELSE <<roundRobinCounter_ % Len(sinks)>>

\* ---- LogDispatcher::randomRouting: dis(gen) is some index of outputs_ ----
randomRouting(choice) == IF sinks = <<>> THEN <<>> ELSE <<choice>>

\* ---- LogDispatcher::defaultRouting: indices are 0-based ----
defaultRouting(choice) ==
    CASE routingStrategy_ = 1 -> roundRobinRouting
      [] routingStrategy_ = 2 -> randomRouting(choice)
      [] OTHER -> [i \in 1..Len(sinks) |-> i - 1]

\* ---- LogDispatcher::getTargetOutputs ----
getTargetOutputs(choice) ==
    IF routeFunction_ # NoRoute
    THEN IF routeFunction_ < Len(sinks) THEN <<routeFunction_>> ELSE <<>>
    ELSE defaultRouting(choice)

\* whether getTargetOutputs executes roundRobinCounter_++
AdvancesCounter ==
    routeFunction_ = NoRoute /\ routingStrategy_ = 1 /\ sinks # <<>>

\* how the i-th sink (1-based) behaves now: a FileOutput is available while open
SinkBehaviour(i) ==
    IF sinks[i] = "file"
    THEN IF sinkClosed[i] THEN "unavailable" ELSE "ok"
    ELSE sinks[i]

\* WriteTargets with successCount++ also for a sink that reports itself unavailable
RECURSIVE WriteTargetsCountAll(_, _, _, _)
WriteTargetsCountAll(targets, k, calls, count) ==
    IF k > Len(targets)
    THEN [calls |-> calls, count |-> count, raised |-> FALSE]
    ELSE LET index == targets[k]
             kind == IF index < Len(sinks) THEN SinkBehaviour(index + 1) ELSE "null"
             asked == Append(calls, [op |-> "isAvailable", sink |-> index])
             written == Append(asked, [op |-> "write", sink |-> index])
         IN  CASE kind = "null" -> WriteTargetsCountAll(targets, k + 1, calls, count)
               [] kind = "unavailable" -> WriteTargetsCountAll(targets, k + 1, asked, count + 1)
               [] kind = "ok" -> WriteTargetsCountAll(targets, k + 1, written, count + 1)
               [] kind = "throws" -> WriteTargetsCountAll(targets, k + 1, written, count)
               [] OTHER -> [calls |-> written, count |-> count, raised |-> TRUE]

\* dispatch: the loop over targetOutputs from position k on.  A sink that is in
\* range, not null and available gets write(msg); successCount++ follows a write
\* that returns; catch (const std::exception&) swallows an exception of that
\* family and the loop goes on; any other exception leaves the loop and dispatch.
RECURSIVE WriteTargets(_, _, _, _)
WriteTargets(targets, k, calls, count) ==
    IF k > Len(targets)
    THEN [calls |-> calls, count |-> count, raised |-> FALSE]
    ELSE LET index == targets[k]
             kind == IF index < Len(sinks) THEN SinkBehaviour(index + 1) ELSE "null"
             asked == Append(calls, [op |-> "isAvailable", sink |-> index])
             written == Append(asked, [op |-> "write", sink |-> index])
         IN  CASE kind = "null" -> WriteTargets(targets, k + 1, calls, count)
               [] kind = "unavailable" -> WriteTargets(targets, k + 1, asked, count)
               [] kind = "ok" -> WriteTargets(targets, k + 1, written, count + 1)
               [] kind = "throws" -> WriteTargets(targets, k + 1, written, count)
               [] OTHER -> [calls |-> written, count |-> count, raised |-> TRUE]

\* index choices randomRouting can make
Choices == IF routingStrategy_ = 2 /\ sinks # <<>> THEN 0..(Len(sinks) - 1) ELSE {0}

\* ---- LogDispatcher::dispatch(msg), called by one thread ----
Dispatch(l, choice) ==
    /\ ndispatch < MaxDispatch
    /\ choice \in Choices
    /\ ndispatch' = ndispatch + 1
    /\ dispatchMsg' = Rec(0, ndispatch + 1, l)
    /\ dispatchOp' = "dispatch"
    /\ LET msg == Rec(0, ndispatch + 1, l)
           res == WriteTargets(getTargetOutputs(choice), 1, <<>>, 0)
       IN  IF ~shouldDispatch(msg)
           THEN /\ dispatchCalls' = <<>>
                /\ dispatchRet' = [raised |-> FALSE, count |-> 0]
                /\ UNCHANGED <<roundRobinCounter_, sinkWrites>>
           ELSE /\ dispatchCalls' = res.calls
                /\ dispatchRet' = [raised |-> res.raised, count |-> res.count]
                /\ roundRobinCounter_' =
                       IF AdvancesCounter THEN roundRobinCounter_ + 1 ELSE roundRobinCounter_
                /\ sinkWrites' =
                       [i \in 1..Len(sinks) |->
                           sinkWrites[i] \o
                           [j \in 1..Len(SelectSeq(res.calls,
                                   LAMBDA e : e.op = "write" /\ e.sink = i - 1)) |-> msg]]
    /\ UNCHANGED <<sinks, messageFilter_, routeFunction_, routingStrategy_, sinkClosed,
                   ctvars, avars, decvars, lmvars, lim>>

\* A LogDispatcher configured with up to MaxSinks sinks, a filter, a route function
\* and a strategy, then used by one thread for MaxDispatch records
InitDisp ==
    /\ ManagerInit(NoLimits)
    /\ AsyncInit
    /\ DecoratorInit(<<>>, TRUE)
    /\ \E s \in SinkSeqs, f \in Filters, r \in Routes, st \in Strategies :
           DispatcherInit(s, f, r, st)

NextDisp == \E l \in InputLevels, choice \in 0..(MaxSinks - 1) : Dispatch(l, choice)

SpecDisp == InitDisp /\ [][NextDisp]_vars

\* flush: the loop over outputs_ from sink k (1-based) on: a sink that is not null
\* and available gets flush(); catch (const std::exception&) swallows an exception
\* of that family, any other exception leaves the loop and flush
RECURSIVE FlushSinks(_, _)
FlushSinks(k, calls) ==
    IF k > Len(sinks)
    THEN [calls |-> calls, raised |-> FALSE]
    ELSE LET asked == Append(calls, [op |-> "isAvailable", sink |-> k - 1])
             flushed == Append(asked, [op |-> "flush", sink |-> k - 1])
         IN  CASE SinkBehaviour(k) = "null" -> FlushSinks(k + 1, calls)
               [] SinkBehaviour(k) = "unavailable" -> FlushSinks(k + 1, asked)
               [] SinkBehaviour(k) = "throws_other" -> [calls |-> flushed, raised |-> TRUE]
               [] OTHER -> FlushSinks(k + 1, flushed)

\* close: the loop over outputs_ from sink k on: a sink that is not null gets
\* close(), with the same catch clause
RECURSIVE CloseSinks(_, _)
CloseSinks(k, calls) ==
    IF k > Len(sinks)
    THEN [calls |-> calls, raised |-> FALSE]
    ELSE LET closed == Append(calls, [op |-> "close", sink |-> k - 1])
         IN  CASE sinks[k] = "null" -> CloseSinks(k + 1, calls)
               [] sinks[k] = "throws_other" -> [calls |-> closed, raised |-> TRUE]
               [] OTHER -> CloseSinks(k + 1, closed)

\* ---- LogDispatcher::flush() ----
LogDispatcherFlush ==
    /\ dispatchOp' = "flush"
    /\ dispatchCalls' = FlushSinks(1, <<>>).calls
    /\ dispatchRet' = [raised |-> FlushSinks(1, <<>>).raised, count |-> 0]
    /\ UNCHANGED <<sinks, messageFilter_, routeFunction_, routingStrategy_,
                   roundRobinCounter_, sinkWrites, dispatchMsg, ndispatch,
                   sinkClosed, ctvars, avars, decvars, lmvars, lim>>

\* ---- LogDispatcher::close() ----
LogDispatcherClose ==
    /\ dispatchOp' = "close"
    /\ dispatchCalls' = CloseSinks(1, <<>>).calls
    /\ dispatchRet' = [raised |-> CloseSinks(1, <<>>).raised, count |-> 0]
    /\ sinkClosed' = [i \in 1..Len(sinks) |->
                         sinkClosed[i] \/ \E n \in 1..Len(CloseSinks(1, <<>>).calls) :
                                              CloseSinks(1, <<>>).calls[n].sink = i - 1]
    /\ UNCHANGED <<sinks, messageFilter_, routeFunction_, routingStrategy_,
                   roundRobinCounter_, sinkWrites, dispatchMsg, ndispatch,
                   ctvars, avars, decvars, lmvars, lim>>

\* A LogDispatcher with up to MaxSinks console and file sinks, no filter and
\* broadcast routing, on which one thread calls dispatch, flush and close
LifecycleSinkSeqs == UNION {[1..n -> LifecycleSinkKinds] : n \in 0..MaxSinks}

InitLife ==
    /\ ManagerInit(NoLimits)
    /\ AsyncInit
    /\ DecoratorInit(<<>>, TRUE)
    /\ \E s \in LifecycleSinkSeqs : DispatcherInit(s, "none", NoRoute, 0)

NextLife ==
    \/ \E l \in InputLevels : Dispatch(l, 0)
    \/ LogDispatcherFlush
    \/ LogDispatcherClose

SpecLife == InitLife /\ [][NextLife]_vars

\* The same calls on a LogDispatcher some of whose sinks throw from every
\* operation, a std::exception or an object of another type
IsolationSinkKinds == {"ok", "throws", "throws_other"}

InitIso ==
    /\ ManagerInit(NoLimits)
    /\ AsyncInit
    /\ DecoratorInit(<<>>, TRUE)
    /\ \E s \in UNION {[1..n -> IsolationSinkKinds] : n \in 0..MaxSinks} :
           DispatcherInit(s, "none", NoRoute, 0)

SpecIso == InitIso /\ [][NextLife]_vars

\* ============ LogDispatcher used by two threads at the same time ============
\* One thread calls dispatch(); its steps are the unlocked reads of shouldDispatch
\* and getTargetOutputs, the critical section of the routing function, and the
\* critical section of dispatch.  A second thread is inside one call at a time;
\* its write takes effect when the call completes.
\* outputsMutex_ is held by the second thread
outputsMutexHeld == rpc.op \in {"addOutput", "removeOutput", "clearOutputs"}

\* dispatch(msg): if (!shouldDispatch(msg)) return 0; reads messageFilter_
DispatchCall(l) ==
    /\ dpc = "idle" /\ ndispatch < MaxDispatchReg
    /\ ndispatch' = ndispatch + 1
    /\ dispatchMsg' = Rec(0, ndispatch + 1, l)
    /\ dispatchOp' = "dispatch"
    /\ raced' = (raced \/ rpc.op = "setMessageFilter")
    /\ IF shouldDispatch(Rec(0, ndispatch + 1, l))
       THEN /\ dpc' = "targets"
            /\ UNCHANGED <<dispatchCalls, dispatchRet>>
       ELSE /\ dpc' = "idle"
            /\ dispatchCalls' = <<>>
            /\ dispatchRet' = [raised |-> FALSE, count |-> 0]
    /\ UNCHANGED <<sinks, messageFilter_, routeFunction_, routingStrategy_,
                   roundRobinCounter_, sinkWrites, sinkClosed, targetOutputs, rpc, rcalls,
                   avars, decvars, lmvars, lim>>

\* dispatch: targetOutputs = getTargetOutputs(msg).  With a route function set it
\* reads outputs_.size() without a lock; otherwise defaultRouting reads
\* routingStrategy_ and computes the indices under outputsMutex_.
DispatchTargets(choice) ==
    /\ dpc = "targets"
    /\ choice \in Choices
    /\ routeFunction_ = NoRoute => ~outputsMutexHeld
    /\ targetOutputs' = getTargetOutputs(choice)
    /\ roundRobinCounter_' =
           IF AdvancesCounter THEN roundRobinCounter_ + 1 ELSE roundRobinCounter_
    /\ raced' = (\/ raced
                 \/ rpc.op = "setRouteFunction"
                 \/ (routeFunction_ # NoRoute /\ outputsMutexHeld)
                 \/ (routeFunction_ = NoRoute /\ rpc.op = "setDefaultRoutingStrategy"))
    /\ dpc' = "write"
    /\ UNCHANGED <<sinks, messageFilter_, routeFunction_, routingStrategy_, sinkWrites,
                   dispatchCalls, dispatchRet, dispatchMsg, ndispatch, sinkClosed,
                   dispatchOp, rpc, rcalls, avars, decvars, lmvars, lim>>

\* dispatch: lock_guard lock(outputsMutex_); the loop over targetOutputs; return
DispatchLoop ==
    /\ dpc = "write" /\ ~outputsMutexHeld
    /\ LET res == WriteTargets(targetOutputs, 1, <<>>, 0)
       IN  /\ dispatchCalls' = res.calls
           /\ dispatchRet' = [raised |-> res.raised, count |-> res.count]
           /\ sinkWrites' =
                  [i \in 1..Len(sinks) |->
                      sinkWrites[i] \o
                      [j \in 1..Len(SelectSeq(res.calls,
                              LAMBDA e : e.op = "write" /\ e.sink = i - 1)) |-> dispatchMsg]]
    /\ dpc' = "idle"
    /\ targetOutputs' = <<>>
    /\ UNCHANGED <<sinks, messageFilter_, routeFunction_, routingStrategy_,
                   roundRobinCounter_, dispatchMsg, ndispatch, sinkClosed, dispatchOp,
                   rpc, rcalls, raced, avars, decvars, lmvars, lim>>

Dispatcher ==
    \/ \E l \in InputLevels : DispatchCall(l)
    \/ \E choice \in 0..MaxSinks : DispatchTargets(choice)
    \/ DispatchLoop

\* the second thread enters addOutput, removeOutput or clearOutputs (and takes
\* outputsMutex_, which no critical section of dispatch holds between steps), or
\* setMessageFilter, setRouteFunction or setDefaultRoutingStrategy (no lock)
RegCall(op, arg) ==
    /\ rpc = NoCall /\ rcalls < MaxRegCalls
    /\ op = "addOutput" => Len(sinks) < MaxSinks
    /\ rpc' = [op |-> op, arg |-> arg]
    /\ rcalls' = rcalls + 1
    /\ UNCHANGED <<sinks, messageFilter_, routeFunction_, routingStrategy_,
                   roundRobinCounter_, sinkWrites, dispatchCalls, dispatchRet, dispatchMsg,
                   ndispatch, sinkClosed, dispatchOp, dpc, targetOutputs, raced,
                   avars, decvars, lmvars, lim>>

\* ---- LogDispatcher::addOutput / removeOutput / clearOutputs / setMessageFilter /
\* setRouteFunction / setDefaultRoutingStrategy: the write, and the return ----
RegDone ==
    /\ rpc # NoCall
    /\ rpc' = NoCall
    /\ sinks' = CASE rpc.op = "addOutput" -> Append(sinks, rpc.arg)
                  [] rpc.op = "removeOutput" /\ rpc.arg < Len(sinks) -> RemoveAt(sinks, rpc.arg + 1)
                  [] rpc.op = "clearOutputs" -> <<>>
                  [] OTHER -> sinks
    /\ sinkWrites' = CASE rpc.op = "addOutput" -> Append(sinkWrites, <<>>)
                       [] rpc.op = "removeOutput" /\ rpc.arg < Len(sinks) ->
                              RemoveAt(sinkWrites, rpc.arg + 1)
                       [] rpc.op = "clearOutputs" -> <<>>
                       [] OTHER -> sinkWrites
    /\ sinkClosed' = CASE rpc.op = "addOutput" -> Append(sinkClosed, FALSE)
                       [] rpc.op = "removeOutput" /\ rpc.arg < Len(sinks) ->
                              RemoveAt(sinkClosed, rpc.arg + 1)
                       [] rpc.op = "clearOutputs" -> <<>>
                       [] OTHER -> sinkClosed
    /\ messageFilter_' = IF rpc.op = "setMessageFilter" THEN rpc.arg ELSE messageFilter_
    /\ routeFunction_' = IF rpc.op = "setRouteFunction" THEN rpc.arg ELSE routeFunction_
    /\ routingStrategy_' =
           IF rpc.op = "setDefaultRoutingStrategy" THEN rpc.arg ELSE routingStrategy_
    /\ UNCHANGED <<roundRobinCounter_, dispatchCalls, dispatchRet, dispatchMsg, ndispatch,
                   dispatchOp, dpc, targetOutputs, rcalls, raced,
                   avars, decvars, lmvars, lim>>

\* removeOutput(i) called while another sink stays registered
RemoveCall(i) == Len(sinks) >= 2 /\ RegCall("removeOutput", i)

\* Round robin over working sinks while the second thread registers and removes
\* sinks, always leaving one registered
InitReg ==
    /\ ManagerInit(NoLimits)
    /\ AsyncInit
    /\ DecoratorInit(<<>>, TRUE)
    /\ \E n \in 1..MaxSinks : DispatcherInit([i \in 1..n |-> "ok"], "none", NoRoute, 1)

NextReg ==
    \/ Dispatcher
    \/ RegCall("addOutput", "ok")
    \/ \E i \in 0..(MaxSinks - 1) : RemoveCall(i)
    \/ RegDone

SpecReg == InitReg /\ [][NextReg]_vars

\* A dispatcher with working sinks, any filter, route function and strategy, on
\* which the second thread makes any registration or configuration call
InitRace ==
    /\ ManagerInit(NoLimits)
    /\ AsyncInit
    /\ DecoratorInit(<<>>, TRUE)
    /\ \E n \in 1..MaxSinks, f \in Filters, r \in Routes, st \in Strategies :
           DispatcherInit([i \in 1..n |-> "ok"], f, r, st)

\* clearMessageFilter and clearRouteFunction are the set calls with no function
NextRace ==
    \/ Dispatcher
    \/ RegCall("addOutput", "ok")
    \/ \E i \in 0..(MaxSinks - 1) : RegCall("removeOutput", i)
    \/ RegCall("clearOutputs", 0)
    \/ \E f \in Filters : RegCall("setMessageFilter", f)
    \/ \E r \in Routes : RegCall("setRouteFunction", r)
    \/ \E st \in Strategies : RegCall("setDefaultRoutingStrategy", st)
    \/ RegDone

SpecRace == InitRace /\ [][NextRace]_vars

\* ===================== decorators (src/logDecorator.cpp) ==================
\* the instants std::chrono::system_clock::now() can return, and how formatTime
\* prints them
Times == {1, 2}
formatTime(t) == IF t = 1 THEN "time1" ELSE "time2"

\* ---- ColorDecorator::getColorCode, getResetCode ----
getColorCode(level) ==
    CASE level = DEBUG -> "\\033[36m"
      [] level = INFO -> "\\033[32m"
      [] level = WARN -> "\\033[33m"
      [] level = ERROR -> "\\033[31m"
      [] level = FATAL -> "\\033[35m"
      [] OTHER -> "\\033[0m"
getResetCode == "\\033[0m"

\* shouldPass with the predicate's answer inverted
shouldPassInverted(f, msg) == IF f # "none" THEN ~FilterAccepts(f, msg) ELSE TRUE

\* ---- FilterDecorator::shouldPass ----
shouldPass(f, msg) == IF f # "none" THEN FilterAccepts(f, msg) ELSE TRUE

\* ---- TimestampDecorator::write: decoratedMsg.message = "[" + timestamp + "] " + msg.message
TimestampMessage(msg, t) ==
    [msg EXCEPT !.message = <<"[", formatTime(t), "] ">> \o msg.message]

\* ---- ColorDecorator::write: coloredMsg.message = colorCode + msg.message + resetCode
ColorMessage(msg) ==
    [msg EXCEPT !.message = <<getColorCode(msg.level)>> \o msg.message \o <<getResetCode>>]

\* write(msg) on the k-th decorator of the chain, the clock reading ts[j] when the
\* j-th decorator asks it: the calls this makes on S.  Each decorator hands its
\* (transformed) message to wrapped_->write; past the last decorator is S.
RECURSIVE ChainWrite(_, _, _)
ChainWrite(k, msg, ts) ==
    IF k > Len(chain)
    THEN <<[op |-> "write", msg |-> msg]>>
    ELSE CASE chain[k].kind = "Timestamp" ->
                ChainWrite(k + 1, TimestampMessage(msg, ts[k]), ts)
           [] chain[k].kind = "Color" ->
                IF chain[k].opt = "on"
                THEN ChainWrite(k + 1, ColorMessage(msg), ts)
                ELSE ChainWrite(k + 1, msg, ts)
           [] chain[k].kind = "Filter" ->
                IF shouldPass(chain[k].opt, msg) THEN ChainWrite(k + 1, msg, ts) ELSE <<>>
           [] OTHER -> ChainWrite(k + 1, msg, ts)

\* a lifecycle call that stops at the first decorator
ChainCallDropped(k, op) == <<>>

\* ---- LogDecorator::flush / close / isAvailable on the k-th decorator: no
\* decorator overrides them, each calls the same method of wrapped_ ----
RECURSIVE ChainCall(_, _)
ChainCall(k, op) ==
    IF k > Len(chain)
    THEN <<[op |-> op, msg |-> Msg(INFO, <<>>)]>>
    ELSE ChainCall(k + 1, op)

\* the clock readings of one write: one per decorator, never going back
ClockReadings ==
    {ts \in [1..Len(chain) -> Times] :
        \A i, j \in 1..Len(chain) : i < j => ts[i] <= ts[j]}

\* write(msg) on the outermost decorator
DecoWrite(l, ts) ==
    /\ ndeco < MaxDecoCalls
    /\ ts \in ClockReadings
    /\ ndeco' = ndeco + 1
    /\ decoOp' = "write"
    /\ decoMsg' = Msg(l, <<"hi">>)
    /\ sinkCalls' = sinkCalls \o ChainWrite(1, Msg(l, <<"hi">>), ts)
    /\ UNCHANGED <<chain, sinkAvailable, decoAvail, avars, dspvars, lmvars, lim>>

\* flush() on the outermost decorator
DecoFlush ==
    /\ ndeco < MaxDecoCalls
    /\ ndeco' = ndeco + 1
    /\ decoOp' = "flush"
    /\ sinkCalls' = sinkCalls \o ChainCall(1, "flush")
    /\ UNCHANGED <<chain, sinkAvailable, decoMsg, decoAvail, avars, dspvars, lmvars, lim>>

\* close() on the outermost decorator
DecoClose ==
    /\ ndeco < MaxDecoCalls
    /\ ndeco' = ndeco + 1
    /\ decoOp' = "close"
    /\ sinkCalls' = sinkCalls \o ChainCall(1, "close")
    /\ UNCHANGED <<chain, sinkAvailable, decoMsg, decoAvail, avars, dspvars, lmvars, lim>>

\* isAvailable() on the outermost decorator: wrapped_ && wrapped_->isAvailable()
DecoIsAvailable ==
    /\ ndeco < MaxDecoCalls
    /\ ndeco' = ndeco + 1
    /\ decoOp' = "isAvailable"
    /\ sinkCalls' = sinkCalls \o ChainCall(1, "isAvailable")
    /\ decoAvail' = (ChainCall(1, "isAvailable") # <<>> /\ sinkAvailable)
    /\ UNCHANGED <<chain, sinkAvailable, decoMsg, avars, dspvars, lmvars, lim>>

\* A chain of up to MaxDepth decorators around a sink S, then MaxDecoCalls calls
InitDeco ==
    /\ ManagerInit(NoLimits)
    /\ AsyncInit
    /\ DispatcherInit(<<>>, "none", NoRoute, 0)
    /\ \E dch \in Chains, av \in BOOLEAN : DecoratorInit(dch, av)

NextDeco ==
    \/ \E l \in InputLevels, ts \in ClockReadings : DecoWrite(l, ts)
    \/ DecoFlush
    \/ DecoClose
    \/ DecoIsAvailable

SpecDeco == InitDeco /\ [][NextDeco]_vars

\* ================================ claims ==================================
Dispatched == Range(dispatched)

\* C1 (graceful shutdown): when stop(), invoked on a running pipeline, has returned,
\* every record whose log() call had returned before stop() was invoked has been
\* passed to LogDispatcher::dispatch.
GracefulShutdown ==
    \A c \in Controllers : cret[c] = "stop_done" => stopSnap[c] \subseteq Dispatched

\* stop() has returned after draining two records logged by different producers
GracefulShutdownWitness ==
    \E c \in Controllers :
        /\ cret[c] = "stop_done"
        /\ \E r1, r2 \in stopSnap[c] : r1.prod # r2.prod

\* C2 (no duplication): no record is passed to LogDispatcher::dispatch more than
\* once, across start()/stop() cycles.
NoDuplication ==
    \A i, j \in 1..Len(dispatched) : i # j => dispatched[i] # dispatched[j]

\* the worker of a second start() is processing a batch after the worker of the
\* first start() has finished and a record has been dispatched
NoDuplicationWitness ==
    /\ Len(dispatched) >= 1
    /\ wpc[1] = "done"
    /\ wpc[2] = "process"

\* C4 (FIFO per producer): two records pushed by the same producer thread are
\* dispatched in the order of their log() calls.
FifoPerProducer ==
    \A i, j \in 1..Len(dispatched) :
        (i < j /\ dispatched[i].prod = dispatched[j].prod)
            => dispatched[i].seq < dispatched[j].seq

\* two records of one producer dispatched around a record of the other producer
FifoPerProducerWitness ==
    /\ Len(dispatched) = 3
    /\ dispatched[1].prod = dispatched[3].prod
    /\ dispatched[1].prod # dispatched[2].prod

\* a step in which controller thread c calls start(), resp. stop()
StartCallStep(c) ==
    /\ cpc[c] = "idle" /\ ccalls'[c] = ccalls[c] + 1
    /\ cret'[c] \in {"start_noop", "in_start"}
StopCallStep(c) ==
    /\ cpc[c] = "idle" /\ ccalls'[c] = ccalls[c] + 1
    /\ cret'[c] \in {"stop_noop", "in_stop"}

\* C7 (start is idempotent): start() called while running_ is true returns true and
\* changes neither the flags, the thread handle, the workers nor the queue.
StartIdempotent ==
    [][\A c \in Controllers :
         (StartCallStep(c) /\ running) =>
            /\ cret'[c] = "start_noop" /\ cpc'[c] = "idle"
            /\ UNCHANGED <<qvars, mvars, dvars, wvars>>]_vars

\* start() has returned true without doing anything
StartIdempotentWitness == \E c \in Controllers : cret[c] = "start_noop"

\* C8 (stop is idempotent): stop() called while running_ is false returns without
\* changing the flags, joining the thread, flushing a sink or touching the queue.
StopIdempotent ==
    [][\A c \in Controllers :
         (StopCallStep(c) /\ ~running) =>
            /\ cret'[c] = "stop_noop" /\ cpc'[c] = "idle"
            /\ UNCHANGED <<qvars, mvars, dvars, wvars>>]_vars

\* a second stop() has returned after a start() and a first stop()
StopIdempotentWitness ==
    \E c \in Controllers : cret[c] = "stop_noop" /\ nworkers >= 1 /\ ccalls[c] >= 3

\* a step in which producer p calls log(), resp. returns from log() after its push
LogCallStep(p) == ppc[p] = "idle" /\ pcalls'[p] = pcalls[p] + 1
LogReturnStep(p) == ppc[p] = "push_size" /\ ppc'[p] = "idle"
\* the nodes that hold record r and have been linked behind another node
LinkedNodesOf(r) == {n \in Nodes : data[n] = r /\ \E m \in Nodes : next[m] = n}

\* C9 (severity filter at submission): a log() call whose level is below the minLevel
\* in force at the call returns at once and leaves the queue (nodes, head, tail,
\* size) unchanged; a call at or above it goes on to push, and when it returns
\* exactly one node holding its record has been linked and size_ has grown by one.
SeverityFilter ==
    [][\A p \in Producers :
         /\ LogCallStep(p) =>
               IF plvl'[p] < minLevel
               THEN ppc'[p] = "idle" /\ UNCHANGED qvars
               ELSE ppc'[p] = "push_load" /\ UNCHANGED <<head, tail, size, next>>
         /\ LogReturnStep(p) =>
               /\ size' = size + 1
               /\ Cardinality(LinkedNodesOf(Rec(p, pcalls[p], plvl[p]))') = 1]_vars

\* with minLevel = WARN, one call of the producer was discarded and one (at WARN,
\* equal to the minimum) has pushed its record and returned
SeverityFilterWitness ==
    /\ minLevel = WARN
    /\ pcalls[1] = 2 /\ ppc[1] = "idle"
    /\ returned = {Rec(1, 2, WARN)}
    /\ Cardinality({n \in Nodes : data[n].prod = 1}) = 1

\* C10 (claim as stated): whenever the pipeline writes a record to a sink, the
\* record's level is not below the minLevel configured at that moment.
SinkMinSeverity ==
    [][\A i \in 1..Len(outputs) :
         Len(outputs'[i]) > Len(outputs[i]) =>
             outputs'[i][Len(outputs'[i])].level >= minLevel]_vars

\* the worker threads that have started and not yet returned from workerFunction
ActiveWorkers == {w \in Workers : wpc[w] \notin {"unborn", "done"}}

\* C6 (claim as stated): at most one worker thread is popping from the queue, and
\* workerThread_ is not assigned while it holds a joinable thread, also when start()
\* and stop() are called from several threads.
ExactlyOneDrainTask ==
    /\ Cardinality(ActiveWorkers) <= 1
    /\ \A c \in Controllers : cpc[c] = "start_assign" => workerThread = NoThread

\* C3 (claim as stated): every record log() has pushed is eventually passed to
\* LogDispatcher::dispatch.
EventualDrain ==
    \A p \in Producers : \A k \in 1..MaxLogsFair :
        (Rec(p, k, INFO) \in returned) ~> (Rec(p, k, INFO) \in Dispatched)

\* C5 (claim as stated): every stop() called on a running pipeline eventually
\* returns, and every flush() that has been entered eventually returns.
StopCompletes ==
    \A c \in Controllers :
        /\ (cret[c] = "in_stop") ~> (cret[c] = "stop_done")
        /\ (cpc[c] \in {"flush_disp", "flush_wait", "flush_sleep"}) ~> (cpc[c] = "idle")

\* C11 (claim as stated): the number of queued records (size_) never exceeds
\* LogConfig::maxQueueSize by more than one drain batch, and a log() call made while
\* size_ is at or above maxQueueSize returns without pushing.
BoundedQueue ==
    [][/\ size' <= maxQueueSize + BatchSize
       /\ \A p \in Producers :
             (LogCallStep(p) /\ size >= maxQueueSize) =>
                 (ppc'[p] = "idle" /\ UNCHANGED qvars)]_vars

\* C12 (claim as stated): while AsyncLogSystem is running the queue never holds more
\* than maxQueueSize_ records, whatever threads call logAsync; a logAsync call that
\* finds size() >= maxQueueSize_ returns without touching the queued records.
QueueSizeLimit ==
    [][/\ asyncRunning' => Len(asyncQueue') <= maxQueueSize_
       /\ \A p \in Producers :
             (apc[p] = "check" /\ Len(asyncQueue) >= maxQueueSize_) =>
                 (apc'[p] = "idle" /\ UNCHANGED <<asyncQueue, asyncAccepted>>)]_vars

\* logAsync calls that were made on the running system and have returned or are
\* in progress (the others were handled synchronously by LogSystem::log)
AsyncSubmitted == acalls[1] + acalls[2] - Len(asyncSync)

\* C13 (claim as stated): once the submitting threads have returned, the records
\* accepted into the queue plus the dropped-record counter add up to the number of
\* records submitted to the running pipeline (all at or above the minimum severity).
OverflowAccounting ==
    (\A p \in Producers : apc[p] = "idle") =>
        Len(asyncAccepted) + droppedCounter = AsyncSubmitted

\* a step that is one dispatch() call
DispatchStep == ndispatch' = ndispatch + 1
\* the sinks (0-based indices) the calls of a dispatch() wrote to, in order
WrittenSinks(calls) ==
    LET w == SelectSeq(calls, LAMBDA e : e.op = "write")
    IN  [n \in 1..Len(w) |-> w[n].sink]
\* the registered sinks (0-based indices) that are not null and report available
AvailableSinks ==
    LET idx == [i \in 1..Len(sinks) |-> i - 1]
    IN  SelectSeq(idx, LAMBDA i : sinks[i + 1] \notin {"null", "unavailable"})
\* the last dispatch() used broadcast routing and its record passed the filter
Broadcast == routeFunction_ = NoRoute /\ routingStrategy_ = 0

\* C14 (claim as stated): with sinks [A, B], broadcast routing, A's write raising on
\* every call and B's write succeeding, each dispatch of a record that passes the
\* filter writes the record to B, does not raise, and returns 1 (B only).
PerSinkIsolation ==
    [][(/\ DispatchStep /\ Broadcast /\ Len(sinks) = 2
        /\ sinks[1] \in {"throws", "throws_other"} /\ sinks[2] = "ok"
        /\ FilterAccepts(messageFilter_, dispatchMsg'))
       => /\ sinkWrites'[2] = Append(sinkWrites[2], dispatchMsg')
          /\ ~dispatchRet'.raised
          /\ dispatchRet'.count = 1]_vars

\* C15 (claim as stated): with broadcast routing and a record that passes the
\* filter, dispatch calls write exactly once on every registered available sink, in
\* index order, and returns the number of those writes that succeeded.
BroadcastRouting ==
    [][(DispatchStep /\ Broadcast /\ FilterAccepts(messageFilter_, dispatchMsg'))
       => /\ WrittenSinks(dispatchCalls') = AvailableSinks
          /\ ~dispatchRet'.raised
          /\ dispatchRet'.count = Cardinality({i \in 1..Len(sinks) : sinks[i] = "ok"})]_vars

\* the dispatcher is one C16 speaks of: round robin, no route function, no filter,
\* k >= 1 sinks, all of them not null and available
RoundRobinSetup ==
    /\ routeFunction_ = NoRoute /\ routingStrategy_ = 1 /\ messageFilter_ = "none"
    /\ Len(sinks) >= 1
    /\ \A i \in 1..Len(sinks) : sinks[i] \notin {"null", "unavailable"}

\* C16 (round robin): on such a dispatcher the i-th dispatched record (from 0) is
\* written to sink i mod k and to no other, so after m*k records every sink has been
\* written exactly m records.
RoundRobinRouting ==
    RoundRobinSetup =>
        LET k == Len(sinks)
        IN  /\ \A j \in 1..k : \A n \in 1..Len(sinkWrites[j]) :
                   (sinkWrites[j][n].seq - 1) % k = j - 1
            /\ \A i \in 0..(ndispatch - 1) :
                   \E n \in 1..Len(sinkWrites[(i % k) + 1]) :
                       sinkWrites[(i % k) + 1][n].seq = i + 1
            /\ \A j \in 1..k : \A n1, n2 \in 1..Len(sinkWrites[j]) :
                   n1 < n2 => sinkWrites[j][n1].seq < sinkWrites[j][n2].seq
            /\ (ndispatch % k = 0) =>
                   \A j \in 1..k : Len(sinkWrites[j]) = ndispatch \div k

\* four records have gone round two sinks twice
RoundRobinRoutingWitness ==
    /\ RoundRobinSetup /\ Len(sinks) = 2 /\ ndispatch = 4
    /\ Len(sinkWrites[1]) = 2 /\ Len(sinkWrites[2]) = 2

\* C17 (dispatcher filter): a dispatch whose record the filter rejects returns 0,
\* calls neither isAvailable nor write on any sink and leaves roundRobinCounter_
\* alone; with no filter set the record goes to the sinks (under broadcast, an
\* available first sink is written the record).
DispatcherFilter ==
    [][DispatchStep =>
         /\ (messageFilter_ # "none" /\ ~FilterAccepts(messageFilter_, dispatchMsg')) =>
                /\ dispatchRet' = [raised |-> FALSE, count |-> 0]
                /\ dispatchCalls' = <<>>
                /\ UNCHANGED <<roundRobinCounter_, sinkWrites>>
         /\ (messageFilter_ = "none" /\ Broadcast /\ Len(sinks) >= 1 /\ sinks[1] = "ok") =>
                sinkWrites'[1] = Append(sinkWrites[1], dispatchMsg')]_vars

\* a round-robin dispatcher with two sinks has rejected an INFO record after
\* writing a WARN record
DispatcherFilterWitness ==
    /\ messageFilter_ = "warn_or_above" /\ routingStrategy_ = 1 /\ routeFunction_ = NoRoute
    /\ sinks = <<"ok", "ok">>
    /\ ndispatch = 2 /\ dispatchMsg.level = INFO
    /\ roundRobinCounter_ = 1 /\ dispatchCalls = <<>>

\* a step that is one write(), flush(), close() or isAvailable() on the chain
DecoStep == ndeco' = ndeco + 1
\* the calls the step made on S
NewSinkCalls == SubSeq(sinkCalls', Len(sinkCalls) + 1, Len(sinkCalls'))

\* C18 (claim as stated): with ColorDecorator wrapping TimestampDecorator wrapping
\* S, write of a record with message "hi" makes S receive exactly
\* colorCode + "[" + timestamp + "] " + "hi" + resetCode.
CompositionOrder ==
    [][(/\ DecoStep
        /\ chain = <<[kind |-> "Color", opt |-> "on"], [kind |-> "Timestamp", opt |-> "-"]>>
        /\ decoOp' = "write")
       => \E t \in Times :
             NewSinkCalls =
                 <<[op |-> "write",
                    msg |-> Msg(decoMsg'.level,
                                <<getColorCode(decoMsg'.level), "[", formatTime(t), "] ",
                                  "hi", getResetCode>>)]>>]_vars

\* C19 (lifecycle pass-through): flush() on the outermost decorator of a chain makes
\* exactly one call on S, S.flush(); close() makes exactly one, S.close();
\* isAvailable() asks S.isAvailable() once and returns its answer; none of them
\* calls S.write.
LifecyclePassThrough ==
    [][DecoStep =>
         /\ decoOp' = "flush" => NewSinkCalls = <<[op |-> "flush", msg |-> Msg(INFO, <<>>)]>>
         /\ decoOp' = "close" => NewSinkCalls = <<[op |-> "close", msg |-> Msg(INFO, <<>>)]>>
         /\ decoOp' = "isAvailable" =>
                /\ NewSinkCalls = <<[op |-> "isAvailable", msg |-> Msg(INFO, <<>>)]>>
                /\ decoAvail' = sinkAvailable]_vars

\* a chain of two decorators around an unavailable sink has been asked
\* isAvailable() after a flush()
LifecyclePassThroughWitness ==
    /\ Len(chain) = 2 /\ ~sinkAvailable /\ ndeco = 2
    /\ decoOp = "isAvailable" /\ ~decoAvail
    /\ Len(sinkCalls) = 2 /\ sinkCalls[1].op = "flush"

\* the chain is a FilterDecorator whose wrapped object passes every call on to S
\* unchanged (S itself, or S inside plain LogDecorators)
FilterOutermost ==
    /\ Len(chain) >= 1 /\ chain[1].kind = "Filter"
    /\ \A k \in 2..Len(chain) : chain[k].kind = "LogDecorator"

\* C20 (filter decorator): FilterDecorator::write calls the wrapped object's write
\* exactly once, with the record unmodified, when the predicate accepts the record or
\* none is set, and makes no call on the wrapped object when it rejects the record.
FilterDecoratorWrite ==
    [][(DecoStep /\ decoOp' = "write" /\ FilterOutermost) =>
         IF chain[1].opt = "none" \/ FilterAccepts(chain[1].opt, decoMsg')
         THEN NewSinkCalls = <<[op |-> "write", msg |-> decoMsg']>>
         ELSE NewSinkCalls = <<>>]_vars

\* a FilterDecorator accepting WARN and above has passed a WARN record on and then
\* rejected an INFO record
FilterDecoratorWriteWitness ==
    /\ chain = <<[kind |-> "Filter", opt |-> "warn_or_above"]>>
    /\ ndeco = 2 /\ decoOp = "write" /\ decoMsg.level = INFO
    /\ sinkCalls = <<[op |-> "write", msg |-> Msg(WARN, <<"hi">>)]>>

\* the objects passed to LogManager::addOutput: positions of outputs_ behind the
\* default output of createDefaultOutputs
RegisteredSinks == 2..Len(outputs_)

\* C21 (claim as stated): every record the worker drains after addOutput(S) is
\* written to S, the object that was registered, exactly once.
RegisteredSinkReceives ==
    [][\A i \in RegisteredSinks :
         Len(dispatched') > Len(dispatched) =>
             outputs_'[i] = Append(outputs_[i], dispatched'[Len(dispatched')])]_vars

\* the sinks (0-based indices) the calls of the step's operation were made on with op
CalledSinks(calls, op) == {calls[n].sink : n \in {m \in 1..Len(calls) : calls[m].op = op}}

\* C22 (claim as stated): once LogDispatcher::close has called close() on a sink,
\* no later dispatch() or flush() calls write or flush on that sink.
NoUseAfterClose ==
    [][\A i \in 1..Len(sinks) :
         (sinkClosed[i] /\ dispatchOp' \in {"dispatch", "flush"}) =>
             /\ (i - 1) \notin CalledSinks(dispatchCalls', "write")
             /\ (i - 1) \notin CalledSinks(dispatchCalls', "flush")]_vars

\* the configuration most recently passed to setConfig (LogConfig{} before the first)
InstalledConfig == cfgHistory[Len(cfgHistory)]

\* C23 (atomic configuration snapshot): every getConfig() returns, complete, the
\* configuration most recently installed (the previous one or the new one of a
\* setConfig running beside it, never a mix of their fields), and every shouldLog()
\* decides with the minLevel of that configuration.
ConfigSnapshot ==
    [][/\ ngc' = ngc + 1 => gcResult' = InstalledConfig
       /\ \A p \in Producers :
             LogCallStep(p) =>
                 (ppc'[p] = "push_load" <=> plvl'[p] >= InstalledConfig.minLevel)]_vars

\* getConfig() has returned the second of two configurations that differ from the
\* default and from each other in both fields, and an INFO record was discarded
ConfigSnapshotWitness ==
    /\ cfgHistory = <<DefaultConfig, Config(WARN, FALSE), Config(DEBUG, FALSE)>>
    /\ gcResult = Config(DEBUG, FALSE) /\ ngc = 2
    /\ pcalls[1] = 1 /\ ppc[1] = "idle" /\ returned = {}

\* C24 (claim as stated): when waitForCompletion(t), called on a running system
\* with no thread inside logAsync during the call, returns true, every record pushed
\* before the call has been written by processMessage; it returns false only when
\* t > 0 and the queue is not empty.
WaitReportsCompletion ==
    [][/\ (wfret' = "true" /\ ~wfBusy') => wfSnap' \subseteq Range(console')
       /\ (wfret' = "false" /\ wfret # "false") =>
              (wfTimeout > 0 /\ Len(asyncQueue) > 0)]_vars

\* C25 (claim as stated): no record submitted with a level below the minLevel
\* configured at that time (info() under minLevel = WARN) is written by
\* writeToConsole.
AsyncLevelFilter == belowMin \cap Range(console) = {}

\* a step in which thread p calls logAsync
LogAsyncCallStep(p) == apc[p] = "idle" /\ acalls'[p] = acalls[p] + 1

\* C27 (synchronous fallback): a logAsync call made while running_ is false returns
\* at once, leaves the queue unchanged and handles the record on the calling thread
\* through LogSystem::log: the record is written to the console iff its level is at
\* or above minLevel and the console is enabled.
SyncFallback ==
    [][\A p \in Producers :
         (LogAsyncCallStep(p) /\ ~asyncRunning) =>
            /\ apc'[p] = "idle"
            /\ UNCHANGED <<asyncQueue, asyncAccepted, cerrDropped>>
            /\ Len(asyncSync') = Len(asyncSync) + 1
            /\ LET r == asyncSync'[Len(asyncSync')]
               IN  /\ r.prod = p /\ r.seq = acalls'[p]
                   /\ console' = IF r.level >= lsConfig.minLevel /\ lsConfig.enableConsole
                                 THEN Append(console, r) ELSE console]_vars

\* after a stop(), with minLevel = WARN, info() was discarded and warn() was written
\* by the calling thread
SyncFallbackWitness ==
    /\ acLast = "stop" /\ acpc = "idle" /\ ~asyncRunning /\ awpc = "done"
    /\ lsConfig = [minLevel |-> LS_WARN, enableConsole |-> TRUE]
    /\ asyncSync = <<Rec(1, 1, LS_INFO), Rec(1, 2, LS_WARN)>>
    /\ console = <<Rec(1, 2, LS_WARN)>>
    /\ asyncQueue = <<>>

\* the pipeline has been started again after a stop() and not been stopped since
Restarted == asyncSpawned >= 2 /\ acLast = "start"

\* C26 (AsyncLogSystem lifecycle): with start() and stop() called one at a time,
\* between calls running_ is true exactly when the last call was start(), one worker
\* thread exists when it is true and none when it is false; and a record accepted
\* by logAsync after a restart is written by the worker (unless stop() is called
\* first).
AsyncLifecycle ==
    /\ [](acpc = "idle" /\ acLast # "none" =>
            /\ asyncRunning = (acLast = "start")
            /\ asyncWorkers = (IF asyncRunning THEN 1 ELSE 0)
            /\ asyncThread = asyncRunning
            /\ asyncRunning => awpc \in {"test", "pop", "process", "sleep"})
    /\ \A p \in Producers : \A k \in 1..MaxLogsLife :
          (Restarted /\ Rec(p, k, LS_INFO) \in Range(asyncAccepted))
              ~> (Rec(p, k, LS_INFO) \in Range(console) \/ acLast = "stop")

\* the worker of the second start() is processing the second record, the first
\* worker having written the first one
AsyncLifecycleWitness ==
    /\ Restarted /\ acpc = "idle" /\ asyncRunning /\ asyncWorkers = 1
    /\ asyncAccepted = <<Rec(1, 1, LS_INFO), Rec(1, 2, LS_INFO)>>
    /\ console = <<Rec(1, 1, LS_INFO)>>
    /\ awpc = "process" /\ awmsg = Rec(1, 2, LS_INFO)

\* the records pop() has returned to the two consumers: those dispatched and those
\* in a consumer's batch
PoppedSeq == dispatched \o wmsgs[1] \o wmsgs[2]
\* the records pop() has returned to any consumer
PoppedSet == Range(dispatched) \cup UNION {Range(wmsgs[w]) : w \in Workers}

\* a step of a consumer that reads oldHead->next, resp. moves next->data out and
\* deletes oldHead
ReadsNext(w) == wpc[w] = "pop_next" /\ wpc'[w] # "pop_next"
MovesAndDeletes(w) == wpc[w] = "pop_move" /\ wpc'[w] # "pop_move"

\* C28 (claim as stated): with two threads calling pop() concurrently, no node is
\* read or written after it was deleted, no node is deleted twice, and every pushed
\* element is returned by at most one pop().
MultiConsumerSafe ==
    [][/\ \A w \in Workers :
             /\ ReadsNext(w) => alive[wOldHead[w]]
             /\ MovesAndDeletes(w) => (alive[wNext[w]] /\ alive[wOldHead[w]])
       /\ \A i, j \in 1..Len(PoppedSeq') : i # j => PoppedSeq'[i] # PoppedSeq'[j]]_vars

\* a step in which a pop() of consumer w returns false
PopReturnsFalse(w) ==
    /\ wpc[w] \in {"pop_tail", "pop_next", "pop_cas"}
    /\ wpc'[w] \in {"process", "wait", "done"}

\* C29 (claim as stated): with a single consumer, pop() returns false only when no
\* element of a completed push() remains unpopped, also while another push is in
\* flight.
PopEmptyOnlyWhenEmpty ==
    [][\A w \in Workers : PopReturnsFalse(w) => returned \subseteq PoppedSet]_vars

\* a step of producer p that stores into oldTail->next
StoresNext(p) == ppc[p] = "push_link" /\ ppc'[p] # "push_link"
\* the nodes that have been allocated and deleted
Deleted == {n \in Nodes : ~alive[n] /\ (n = Sentinel \/ data[n] # NoRec)}

\* C30 (node reclamation): with two producers and one consumer at a time, a pop
\* deletes only a node that is still allocated, a node deleted before destruction
\* is the sentinel or a node whose payload a pop has moved out, no producer stores
\* into the next pointer of a deleted node, and after the destructor no allocated
\* node remains.
NodeReclamation ==
    [][/\ \A w \in Workers : MovesAndDeletes(w) => alive[wOldHead[w]]
       /\ \A p \in Producers : StoresNext(p) => alive[pexp[p]]
       /\ ~destroyed' => \A n \in Deleted' : n = Sentinel \/ data'[n] \in PoppedSet'
       /\ destroyed' => \A n \in Nodes : ~alive'[n]]_vars

\* the destructor has run after the worker popped one record, leaving the second
\* record's node and the last head to cleanup
NodeReclamationWitness ==
    /\ destroyed /\ Len(dispatched) = 1 /\ Cardinality(returned) = 2
    /\ \A n \in Nodes : ~alive[n]
    /\ Cardinality(Deleted) = 3

\* the elements linked behind node a up to node b, oldest first (NoRec when b is
\* not linked behind a)
RECURSIVE ElementsBetween(_, _)
ElementsBetween(a, b) ==
    IF a = b THEN <<>>
    ELSE IF next[a] = Nil THEN <<NoRec>>
    ELSE <<data[next[a]]>> \o ElementsBetween(next[a], b)
\* a step in which popBatch returns to its caller
PopBatchReturns(w) == wpc[w] # "batch_ret" /\ wpc'[w] = "batch_ret"

\* C31 (popBatch): with a single consumer, when popBatch(items, max) returns, items
\* holds n <= max elements, they are the n oldest elements the queue held, oldest
\* first, and nothing else, head_ has advanced past exactly those n, and n < max
\* only when the last pop() returned false.
PopBatchContract ==
    [][PopBatchReturns(1) =>
          /\ Len(wmsgs'[1]) <= pb.maxCount
          /\ wmsgs'[1] = ElementsBetween(pb.head0, head)'
          /\ Len(wmsgs'[1]) < pb.maxCount => wpc[1] \in {"pop_tail", "pop_next", "pop_cas"}]_vars

\* the second popBatch call has returned a full batch while the queue still holds
\* an element, after the first call had left an element in the same vector
PopBatchContractWitness ==
    /\ wpc[1] = "batch_ret" /\ pb.calls = 2 /\ pb.maxCount = 1
    /\ Len(wmsgs[1]) = 1
    /\ Len(ElementsBetween(Sentinel, pb.head0)) = 1
    /\ head # tail

\* C32 (claim as stated): flush() calls flush on every registered available sink and
\* close() calls close on every registered sink, also when an earlier sink's flush
\* or close raises, and neither call raises.
FlushCloseIsolation ==
    [][/\ dispatchOp' = "flush" =>
             /\ CalledSinks(dispatchCalls', "flush") = {i - 1 : i \in 1..Len(sinks)}
             /\ ~dispatchRet'.raised
       /\ dispatchOp' = "close" =>
             /\ CalledSinks(dispatchCalls', "close") = {i - 1 : i \in 1..Len(sinks)}
             /\ ~dispatchRet'.raised]_vars

\* the number of write calls among calls that were made on a sink whose write returns
ReturnedWrites(calls) ==
    Len(SelectSeq(calls, LAMBDA e : e.op = "write" /\ sinks[e.sink + 1] = "ok"))

\* C33 (guarded writes): dispatch calls only sinks that are registered, calls write
\* only on a sink that is not null and has just reported itself available, writes
\* to no sink and returns 0 when the route function returns an index >= the number
\* of sinks, and returns the number of writes that returned (skipped sinks are not
\* counted).
GuardedWrites ==
    [][DispatchStep =>
         /\ \A n \in 1..Len(dispatchCalls') :
               /\ dispatchCalls'[n].sink \in 0..(Len(sinks) - 1)
               /\ dispatchCalls'[n].op = "write" =>
                     /\ sinks[dispatchCalls'[n].sink + 1] \notin {"null", "unavailable"}
                     /\ n > 1
                     /\ dispatchCalls'[n - 1] =
                            [op |-> "isAvailable", sink |-> dispatchCalls'[n].sink]
         /\ (routeFunction_ # NoRoute /\ routeFunction_ >= Len(sinks)) =>
               /\ dispatchCalls' = <<>>
               /\ dispatchRet' = [raised |-> FALSE, count |-> 0]
               /\ sinkWrites' = sinkWrites
         /\ ~dispatchRet'.raised => dispatchRet'.count = ReturnedWrites(dispatchCalls')]_vars

\* a route function returning index 2 on a dispatcher with two working sinks: the
\* dispatch of a record has called no sink and returned 0
GuardedWritesWitness ==
    /\ routeFunction_ = 2 /\ sinks = <<"ok", "ok">> /\ messageFilter_ = "none"
    /\ ndispatch = 1 /\ dispatchCalls = <<>>
    /\ dispatchRet = [raised |-> FALSE, count |-> 0]
    /\ sinkWrites = <<<<>>, <<>>>>

\* a step in which the critical section of dispatch() runs and dispatch returns
DispatchLoopStep == dpc = "write" /\ dpc' = "idle"

\* C34 (claim as stated): with round-robin routing and at least one working sink
\* registered at every moment, each dispatched record is written to exactly one
\* sink, also when addOutput or removeOutput runs between the computation of the
\* target index and the write.
RoundRobinExactlyOne ==
    [][DispatchLoopStep => Len(WrittenSinks(dispatchCalls')) = 1]_vars

\* C40 (claim as stated): no thread reads outputs_, messageFilter_, routeFunction_
\* or routingStrategy_ while another thread is inside a call that modifies it.
NoUnlockedAccess == ~raced

\* a step in which removeOutput(i) returns true
RemoveOutputSucceeds(i) ==
    /\ ocalls'.remove = ocalls.remove + 1
    /\ i < Len(outputIds)
    /\ outputIds' = RemoveAt(outputIds, i + 1)

\* C39 (claim as stated): LogManager::getOutputCount() equals
\* LogDispatcher::getOutputCount() from construction on, and removeOutput(i)
\* returning true removes the dispatcher's sink that was created for the i-th
\* registered output, and no other.
OutputsAligned ==
    /\ [](Len(outputs_) = Len(outputs))
    /\ [][\A i \in 0..MaxOutputsReg :
            RemoveOutputSucceeds(i) =>
                Range(sinkFor') = Range(sinkFor) \ {outputIds[i + 1]}]_vars

\* no thread is running workerFunction
NoWorker == \A w \in Workers : wpc[w] \in {"unborn", "done"}
\* a step in which stop() calls dispatcher_->flush()
StopFlushes(c) == cpc[c] = "flush_disp" /\ cpc'[c] = "flush_wait"

\* C35 (stop ordering): when stop(), called on a running pipeline by the thread
\* that started it, flushes the sinks, the worker thread has terminated, so every
\* write of the worker precedes the flush (the flush reaches every sink and comes
\* with no write), and no worker is running when stop() has returned.
StopOrdering ==
    /\ [][\A c \in Controllers :
            StopFlushes(c) =>
                /\ NoWorker
                /\ outputs' = outputs
                /\ \A i \in 1..Len(flushes) : flushes'[i] = flushes[i] + 1]_vars
    /\ [](\A c \in Controllers : (cpc[c] = "idle" /\ cret[c] = "stop_done") => NoWorker)

\* stop() has flushed the sink after the worker wrote it two records and exited
StopOrderingWitness ==
    /\ cpc[1] = "flush_wait" /\ NoWorker
    /\ Len(outputs) = 1 /\ Len(outputs[1]) = 2 /\ flushes = <<1>>

\* C36 (claim as stated): every record logAsync() has pushed onto the queue is
\* eventually passed to processMessage, and none is passed to it twice, also when
\* stop() runs between the running_ test of logAsync and its push.
NoStrandedRecord ==
    /\ \A p \in Producers : \A k \in 1..MaxLogsLife :
          (Rec(p, k, LS_INFO) \in Range(asyncAccepted)) ~> (Rec(p, k, LS_INFO) \in Range(console))
    /\ [](\A i, j \in 1..Len(console) : i # j => console[i] # console[j])

\* a round of the tail compare-and-swap loop of producer p that fails and reloads
\* expected (a spurious failure of compare_exchange_weak finds tail_ = expected and
\* changes nothing: a stuttering step, which the fairness conditions do not count)
PushCASFails(p) == ppc[p] = "push_cas" /\ ppc'[p] = "push_cas" /\ pexp'[p] # pexp[p]

pushesStarted == Cardinality({n \in Nodes : data[n] # NoRec})
popsSucceeded == Cardinality({n \in Nodes : (n = Sentinel \/ data[n] # NoRec) /\ ~alive[n]})

\* C38 (claim as stated): size_ is never decremented below zero, and getSize() is at
\* most the number of push() calls started minus the number of pop() calls that
\* succeeded.
SizeNeverWraps ==
    /\ size >= 0
    /\ getSize <= pushesStarted - popsSucceeded

====
